---- MODULE Spec2Model ----
(***************************************************************************)
(* Model of the account-provisioning orchestration engine:                 *)
(*   AutomationRunner (run loop, pause / resume / stop),                   *)
(*   LineAutomation   (login with session restore, challenge gate,         *)
(*                     create_account, process_account),                   *)
(*   SessionManager   (save / load / has / clear of the session artifact), *)
(*   SheetsClient     (column letters, get_enabled_rows, update_cell),     *)
(*   LineAutomationApp (challenge dialog and resolution event).            *)
(*                                                                         *)
(* Two execution contexts: the worker (the asyncio loop that executes      *)
(* run()) and the control context (the Qt main thread, the caller of       *)
(* pause / resume / stop and the owner of the challenge dialog).           *)
(*                                                                         *)
(* URLs are sequences of tokens; the substring tests of the code           *)
(* ('manager.line.biz' in url) are token membership tests.                 *)
(***************************************************************************)
EXTENDS Integers, Sequences, FiniteSets, TLC

\* ------------------------------------------------------------------ bounds
MaxRows == 2

\* ------------------------------------------------------- program constants
HEADER_ROWS == 2

LINE_MANAGER_URL == <<"https://", "manager.line.biz", "/">>

LINE_DEVELOPERS_URL == <<"https://", "developers.line.biz", "/", "console">>

LINE_LOGIN_URL ==
    <<"https://", "account.line.biz", "/", "login", "?redirectUri=",
      "account.line.biz", "oauth2", "callback", "redirect_uri=",
      "manager.line.biz", "api", "oauth2", "bizId", "callback">>

\* ------------------------------------------------------------- URL helpers
\* Python's  tok in url
Contains(url, tok) == \E i \in DOMAIN url : url[i] = tok

\* tokens that end / start with a slash (for the glob of wait_for_url)
EndsWithSlash == {"https://", "/"}
StartsWithSlash == {"/"}

\* page.wait_for_url("**/manager.line.biz/**"): the literal
\* "/manager.line.biz/" occurs in the URL
WaitForUrlMatches(url) ==
    \E i \in DOMAIN url :
        /\ url[i] = "manager.line.biz"
        /\ i > 1 /\ url[i - 1] \in EndsWithSlash
        /\ i < Len(url) /\ url[i + 1] \in StartsWithSlash

\* leading [a-zA-Z0-9]+ run of a token ("" when the token does not start
\* with an alphanumeric character)
AlnumPrefix(tok) ==
    CASE tok = "abc123"           -> "abc123"
      [] tok = "xyz"              -> "xyz"
      [] tok = "account"          -> "account"
      [] tok = "login"            -> "login"
      [] tok = "manager.line.biz" -> "manager"
      [] tok = "account.line.biz" -> "account"
      [] OTHER                    -> ""

\* positions of the url where  @[a-zA-Z0-9]+  matches
BasicIdMatches(url) ==
    { i \in DOMAIN url :
        /\ url[i] = "@"
        /\ i < Len(url)
        /\ AlnumPrefix(url[i + 1]) # "" }

Min(S) == CHOOSE m \in S : \A n \in S : m <= n

\* "@" + run
AtSign(run) ==
    CASE run = "abc123"  -> "@abc123"
      [] run = "xyz"     -> "@xyz"
      [] run = "account" -> "@account"
      [] run = "login"   -> "@login"
      [] run = "manager" -> "@manager"
      [] OTHER           -> "@"

\* LineAutomation._extract_basic_id: the first match, or the empty string
_extract_basic_id(url) ==
    IF BasicIdMatches(url) = {}
    THEN ""
    ELSE AtSign(AlnumPrefix(url[Min(BasicIdMatches(url)) + 1]))

\* ----------------------------------------------- ground truth about a URL
Host(url) == url[2]
OnHomeSurface(url) == Host(url) = "manager.line.biz"
IsLoginSurface(url) == Host(url) = "account.line.biz" /\ Contains(url, "login")

\* URLs the browser can be on after a navigation to the manager / after the
\* login form was submitted
HomeAccountUrl == <<"https://", "manager.line.biz", "/", "account", "/", "@", "abc123">>
PlainLoginUrl == <<"https://", "account.line.biz", "/", "login">>
LandingUrls == {LINE_MANAGER_URL, LINE_LOGIN_URL, PlainLoginUrl, HomeAccountUrl}

\* the page of _get_friend_link, where the browser stays when the
\* navigation of _get_access_token raises
FriendUrlPage == <<"https://", "manager.line.biz", "/", "account", "/", "gainfriends">>

\* URLs the browser can be on after the post-creation reload
PostCreationUrls ==
    { HomeAccountUrl,
      LINE_MANAGER_URL,
      <<"https://", "manager.line.biz", "/", "account", "/", "@", "/">>,
      <<"https://", "entry.line.biz", "/", "form", "/", "entry">> }

\* ---------------------------------------------------------- column letters
\* a column letter is the sequence of its characters: "AZ" is <<"A", "Z">>
Alphabet ==
    <<"A", "B", "C", "D", "E", "F", "G", "H", "I", "J", "K", "L", "M",
      "N", "O", "P", "Q", "R", "S", "T", "U", "V", "W", "X", "Y", "Z">>

LowerAlphabet ==
    <<"a", "b", "c", "d", "e", "f", "g", "h", "i", "j", "k", "l", "m",
      "n", "o", "p", "q", "r", "s", "t", "u", "v", "w", "x", "y", "z">>

\* the "unset" entry of the column selectors
Sentinel == <<"-">>

\* str.upper() on one character
Upper(c) ==
    IF \E i \in DOMAIN LowerAlphabet : LowerAlphabet[i] = c
    THEN Alphabet[CHOOSE i \in DOMAIN LowerAlphabet : LowerAlphabet[i] = c]
    ELSE c

\* ord() on the characters that occur in column letters
Ord(c) ==
    IF \E i \in DOMAIN Alphabet : Alphabet[i] = c
    THEN 64 + (CHOOSE i \in DOMAIN Alphabet : Alphabet[i] = c)
    ELSE 45

\* chr() on the codes of the capital letters
Chr(n) == Alphabet[n - 64]

\* _col_letter_to_index, the loop:
\*   result = result * 26 + (ord(char) - ord('A') + 1)
RECURSIVE ColAccumulate(_, _)
ColAccumulate(letter, result) ==
    IF letter = <<>>
    THEN result
    ELSE ColAccumulate(Tail(letter),
                       result * 26 + (Ord(Upper(Head(letter))) - Ord("A") + 1))

_col_letter_to_index_OneBased(letter) ==
    IF letter = <<>> \/ letter = Sentinel
    THEN -1
    ELSE ColAccumulate(letter, 0)

\* SheetsClient._col_letter_to_index
_col_letter_to_index(letter) ==
    IF letter = <<>> \/ letter = Sentinel
    THEN -1
    ELSE ColAccumulate(letter, 0) - 1

\* get_column_options(): "-", then A..Z, then AA..AZ
get_column_options ==
    <<Sentinel>>
    \o [i \in 1..26 |-> <<Chr(65 + (i - 1))>>]
    \o [i \in 1..26 |-> <<"A", Chr(65 + (i - 1))>>]

\* the letters a column setting can hold: the options of the selectors,
\* the empty default of RunnerConfig and a lower-case letter
ColumnInputs ==
    { get_column_options[i] : i \in DOMAIN get_column_options } \cup {<<>>, <<"b">>}

\* the sheet keeps the enabled flags in its first column (index 0): with
\* any other index no row passes the test of get_enabled_rows
FlagColumnRead(i) == i = 0

\* ------------------------------------------------------------------- state
VARIABLES
    \* AutomationRunner
    is_running, is_paused, should_stop, accounts, results, automation,
    \* get_enabled_rows: the decoded index of the enabled column
    enabled_idx,
    \* position of the worker inside run() and the locals of run()
    pc, idx, exitKind, returned,
    \* LineAutomation / StealthBrowser
    is_logged_in, current_url, browser, closeCalls, cur,
    \* SessionManager: the artifact file
    session_file,
    \* challenge gate: threading.Event, queued captcha_required signals,
    \* open CaptchaDialogs, running captcha_callback coroutines, resume point
    captchaWired, captcha_event, sigQueue, openDialogs, waits, captchaRet,
    \* accepted dialogs (event.set() calls) and waits that ended by the event
    acks, consumed,
    \* Record Source write-back
    column_config, writes,
    \* observation of the run (what was started / reported / called)
    started, progress, stopCtx, stopIdx,
    restoreOutcome, loginCalls, clearCalls, saveCalls, credLoginCalls, loginResult

ctlVars == <<is_paused, should_stop, stopCtx, stopIdx>>
loopVars == <<accounts, enabled_idx, results, idx, started, progress, cur, writes>>
runVars == <<is_running, automation, exitKind, returned, browser, closeCalls>>
loginVars == <<is_logged_in, current_url, session_file, restoreOutcome, loginCalls,
               clearCalls, saveCalls, credLoginCalls, loginResult>>
captchaVars == <<captcha_event, sigQueue, openDialogs, waits, captchaRet,
                 acks, consumed>>
cfgVars == <<captchaWired, column_config>>

\* Components checked on their own (each has its own specification below);
\* a run of AutomationRunner leaves these variables alone.
VARIABLES
    \* SheetsClient.get_enabled_rows: the connection, the cells of the sheet,
    \* the loop position, the list built so far and the position of the call
    worksheet, all_values, row_idx, enabled_rows, sheetRet,
    \* SessionManager: the content of the artifact file and the last call
    artifact, storeCall,
    \* ImageDownloader: the icon urls of the records and the two caches
    icon_urls, downloaded_urls, row_to_image, download_results, fetched,
    \* create_account after the identifier: the record, its image path, the
    \* phase, the phases entered, the result slots, the phases that raised
    wfRecord, image_path, phase, phaseLog, wfResult, phaseErrors,
    \* StealthBrowser tabs: context.pages, self.page, self.pages, the pages
    \* with the stealth profile, the running operation and its locals
    context_pages, page, pages, stealthed, tabPc, polls, tabRet, closeQueue,
    nextPageId,
    \* _close_modal_popups: open modals, loop counter, position, what the
    \* current attempt found and clicked, and the Escape keys pressed
    modals, attempt, modalPc, btnFound, clicked, escapes

sheetVars == <<worksheet, all_values, row_idx, enabled_rows, sheetRet>>
storeVars == <<artifact, storeCall>>
assetVars == <<icon_urls, downloaded_urls, row_to_image, download_results, fetched>>
flowVars == <<wfRecord, image_path, phase, phaseLog, wfResult, phaseErrors>>
tabVars == <<context_pages, page, pages, stealthed, tabPc, polls, tabRet,
             closeQueue, nextPageId>>
modalVars == <<modals, attempt, modalPc, btnFound, clicked, escapes>>

VARIABLES
    \* process_account, the write-back: the column settings, the result of
    \* create_account, the update_cell calls issued and the position
    wbConfig, wbResult, update_calls, wbPc,
    \* LineAutomationApp: its running and pause flags, the pause button
    \* (enabled, label), the runner it holds and that runner's pause flag,
    \* the worker thread and the queued automation_finished signals
    app_is_running, app_is_paused, pause_enabled, pause_label,
    automation_runner, runner_is_paused, threadPc, finishedQueue,
    \* the clicks on the pause button: the label clicked and the call made
    clicks

writeVars == <<wbConfig, wbResult, update_calls, wbPc>>
appVars == <<app_is_running, app_is_paused, pause_enabled, pause_label,
             automation_runner, runner_is_paused, threadPc, finishedQueue, clicks>>
unitVars == <<sheetVars, storeVars, assetVars, flowVars, tabVars, modalVars,
              writeVars, appVars>>

\* the variables of the AutomationRunner run
vars_runner == <<pc, ctlVars, loopVars, runVars, loginVars, captchaVars, cfgVars>>

vars == <<vars_runner, unitVars>>

\* ------------------------------------------------------------ value spaces
Rows == (HEADER_ROWS + 1)..(HEADER_ROWS + MaxRows)

\* get_enabled_rows returns the eligible rows in sheet order: row numbers
\* strictly increasing
AccountSeqs ==
    { s \in UNION { [1..n -> [row_number : Rows]] : n \in 0..MaxRows } :
        \A i, j \in DOMAIN s : i < j => s[i].row_number < s[j].row_number }

\* RunnerConfig column letters of the five output fields
OutputFields == {"col_basic_id", "col_permission_link", "col_friend_link",
                 "col_access_token", "col_business_account"}
ColumnConfigs ==
    { [col_enabled |-> e,
       col_basic_id |-> Sentinel, col_permission_link |-> <<"E">>,
       col_friend_link |-> <<"F">>, col_access_token |-> <<"G">>,
       col_business_account |-> <<"H">>] : e \in ColumnInputs }

\* AutomationResult(row_number=..., success=False)
NewResult(row) ==
    [row_number |-> row, success |-> FALSE, basic_id |-> "",
     permission_link |-> "", friend_link |-> "", access_token |-> "",
     error_message |-> ""]

NoResult == NewResult(0)

\* what the three link / credential phases can leave in their slots
PhaseOutputs ==
    { [permission_link |-> "plink", friend_link |-> "flink", access_token |-> "token"],
      [permission_link |-> "plink", friend_link |-> "flink", access_token |-> ""],
      [permission_link |-> "", friend_link |-> "", access_token |-> ""] }

\* ------------------------------------------------------------------- Init
RunnerInit ==
    /\ is_running = FALSE /\ is_paused = FALSE /\ should_stop = FALSE
    /\ accounts = <<>> /\ enabled_idx = -1 /\ results = <<>> /\ automation = FALSE
    /\ pc = "init" /\ idx = 0 /\ exitKind = "none" /\ returned = <<>>
    /\ is_logged_in = FALSE /\ current_url = <<>> /\ browser = "none"
    /\ closeCalls = 0 /\ cur = NoResult
    /\ session_file \in {"absent", "valid", "unreadable"}
    /\ captchaWired \in BOOLEAN
    /\ captcha_event = FALSE /\ sigQueue = 0 /\ openDialogs = 0 /\ waits = 0
    /\ captchaRet = "none" /\ acks = 0 /\ consumed = 0
    /\ column_config \in ColumnConfigs /\ writes = <<>>
    /\ started = <<>> /\ progress = <<>>
    /\ stopCtx = "none" /\ stopIdx = 0
    /\ restoreOutcome = "none" /\ loginCalls = 0 /\ clearCalls = 0 /\ saveCalls = 0
    /\ credLoginCalls = 0 /\ loginResult = "none"

\* the components before any of their operations is called
SheetIdle ==
    /\ worksheet = FALSE /\ all_values = <<>> /\ row_idx = 0
    /\ enabled_rows = <<>> /\ sheetRet = "none"

StoreIdle ==
    /\ artifact = [exists |-> FALSE, text |-> <<>>]
    /\ storeCall = [op |-> "none", arg |-> <<>>, ok |-> FALSE, loaded |-> <<>>,
                    io_error |-> FALSE, raised |-> FALSE, last_write |-> "none",
                    last_saved |-> <<>>]

AssetIdle ==
    /\ icon_urls = <<>> /\ downloaded_urls = <<>> /\ row_to_image = <<>>
    /\ download_results = <<>> /\ fetched = <<>>

FlowIdle ==
    /\ wfRecord = 0 /\ image_path = <<>> /\ phase = "idle" /\ phaseLog = <<>>
    /\ wfResult = NoResult /\ phaseErrors = {}

\* StealthBrowser.start: one context with one page, stealth applied to it
TabsIdle ==
    /\ context_pages = <<1>> /\ page = 1 /\ pages = <<1>> /\ stealthed = {1}
    /\ tabPc = "idle" /\ polls = 0 /\ tabRet = "none" /\ closeQueue = <<>>
    /\ nextPageId = 2

ModalIdle ==
    /\ modals = 0 /\ attempt = 0 /\ modalPc = "idle" /\ btnFound = {}
    /\ clicked = {} /\ escapes = 0

\* process_account before it is called
WriteBackIdle ==
    /\ wbConfig = <<>> /\ wbResult = NoResult /\ update_calls = <<>> /\ wbPc = "idle"

\* LineAutomationApp.__init__, lines 451-453, and the button of line 793
AppIdle ==
    /\ app_is_running = FALSE /\ app_is_paused = FALSE
    /\ pause_enabled = FALSE /\ pause_label = "pause"
    /\ automation_runner = 0 /\ runner_is_paused = FALSE
    /\ threadPc = "none" /\ finishedQueue = 0 /\ clicks = <<>>

Init ==
    /\ RunnerInit
    /\ SheetIdle /\ StoreIdle /\ AssetIdle /\ FlowIdle /\ TabsIdle /\ ModalIdle
    /\ WriteBackIdle /\ AppIdle

\* the runner before run() is called, with one configuration
RunnerAtRest ==
    /\ RunnerInit
    /\ session_file = "absent" /\ ~captchaWired
    /\ column_config.col_enabled = <<"A">>

\* ------------------------------------------------- control context: flags
\* worker positions that belong to one record's workflow (process_account)
InFlightPcs == {"create", "create_post", "phases", "writeback"}
InFlight == pc \in InFlightPcs \/ (pc \in {"captcha_notify", "captcha_poll", "captcha_sleep"}
                                   /\ captchaRet = "create_post")

\* where the worker was when a stop() that set the flag arrived
StopContext ==
    IF pc = "pause_sleep" THEN "pause_wait"
    ELSE IF InFlight THEN "in_flight"
    ELSE "other"

\* AutomationRunner.pause
pause ==
    /\ pc # "done"
    /\ is_paused' = TRUE
    /\ UNCHANGED <<should_stop, stopCtx, stopIdx>>
    /\ UNCHANGED <<pc, loopVars, runVars, loginVars, captchaVars, cfgVars, unitVars>>

\* AutomationRunner.resume
resume ==
    /\ pc # "done"
    /\ is_paused' = FALSE
    /\ UNCHANGED <<should_stop, stopCtx, stopIdx>>
    /\ UNCHANGED <<pc, loopVars, runVars, loginVars, captchaVars, cfgVars, unitVars>>

\* AutomationRunner.stop
stop ==
    /\ pc # "done"
    /\ should_stop' = TRUE
    /\ is_paused' = FALSE
    /\ IF should_stop
       THEN UNCHANGED <<stopCtx, stopIdx>>
       ELSE stopCtx' = StopContext /\ stopIdx' = idx
    /\ UNCHANGED <<pc, loopVars, runVars, loginVars, captchaVars, cfgVars, unitVars>>

\* ------------------------------------------------ worker: AutomationRunner
EarlyReturnKinds == {"connect_failed", "no_accounts", "launch_failed", "login_failed"}

\* run(): the three assignments that precede the try block
RunBegin ==
    /\ pc = "init"
    /\ is_running' = TRUE
    /\ should_stop' = FALSE
    /\ results' = <<>>
    /\ pc' = "connect"
    /\ stopCtx' = "none" /\ stopIdx' = 0
    /\ UNCHANGED is_paused
    /\ UNCHANGED <<accounts, enabled_idx, idx, started, progress, cur, writes>>
    /\ UNCHANGED <<automation, exitKind, returned, browser, closeCalls>>
    /\ UNCHANGED <<loginVars, captchaVars, cfgVars, unitVars>>

\* SheetsClient.connect succeeded or failed
Connect ==
    /\ pc = "connect"
    /\ \/ pc' = "fetch" /\ UNCHANGED exitKind
       \/ pc' = "finally" /\ exitKind' = "connect_failed"
    /\ UNCHANGED <<is_running, automation, returned, browser, closeCalls>>
    /\ UNCHANGED <<ctlVars, loopVars, loginVars, captchaVars, cfgVars, unitVars>>

\* get_enabled_rows up to the column indices: get_all_values may raise, a
\* sheet without data rows returns [], otherwise the letters are decoded
FetchAccounts ==
    /\ pc = "fetch"
    /\ \/ /\ pc' = "finally" /\ exitKind' = "exception"
          /\ UNCHANGED <<accounts, enabled_idx>>
       \/ /\ pc' = "finally" /\ exitKind' = "no_accounts"
          /\ UNCHANGED <<accounts, enabled_idx>>
       \/ /\ enabled_idx' = _col_letter_to_index(column_config.col_enabled)
          /\ pc' = "filter"
          /\ UNCHANGED <<accounts, exitKind>>
    /\ UNCHANGED <<results, idx, started, progress, cur, writes>>
    /\ UNCHANGED <<is_running, automation, returned, browser, closeCalls>>
    /\ UNCHANGED <<ctlVars, loginVars, captchaVars, cfgVars, unitVars>>

\* the rows get_enabled_rows can return for a decoded enabled column
EnabledRows(i) == IF FlagColumnRead(i) THEN AccountSeqs ELSE {<<>>}

\* the row loop of get_enabled_rows, the test of run() for an empty list
\* and download_all, which may raise
FilterRows ==
    /\ pc = "filter"
    /\ \/ \E a \in EnabledRows(enabled_idx) :
            /\ accounts' = a
            /\ IF a = <<>>
               THEN pc' = "finally" /\ exitKind' = "no_accounts"
               ELSE pc' = "launch" /\ UNCHANGED exitKind
       \/ \E a \in EnabledRows(enabled_idx) \ {<<>>} :
            /\ accounts' = a
            /\ pc' = "finally" /\ exitKind' = "exception"
    /\ UNCHANGED <<enabled_idx, results, idx, started, progress, cur, writes>>
    /\ UNCHANGED <<is_running, automation, returned, browser, closeCalls>>
    /\ UNCHANGED <<ctlVars, loginVars, captchaVars, cfgVars, unitVars>>

\* LineAutomation(...) is created, then automation.start()
Launch ==
    /\ pc = "launch"
    /\ automation' = TRUE
    /\ \/ browser' = "open" /\ pc' = "restore" /\ UNCHANGED exitKind
       \/ pc' = "finally" /\ exitKind' = "launch_failed" /\ UNCHANGED browser
    /\ UNCHANGED <<is_running, returned, closeCalls>>
    /\ UNCHANGED <<ctlVars, loopVars, loginVars, captchaVars, cfgVars, unitVars>>

AfterLogin_IgnoreResult(ok) == "loop_top"

AfterLogin_Relogin(ok) == IF ok THEN "loop_top" ELSE "restore"

\* run(), line 152:  if not await self.automation.login()
AfterLogin(ok) == IF ok THEN "loop_top" ELSE "login_failed"

\* the first value of the loop variable, when the loop is entered
FirstIndex(target, i) == IF target = "loop_top" THEN 1 ELSE i

\* login() returned False: log, automation.stop(), return []
LoginFailed ==
    /\ pc = "login_failed"
    /\ closeCalls' = closeCalls + 1
    /\ browser' = "closed"
    /\ exitKind' = "login_failed"
    /\ pc' = "finally"
    /\ UNCHANGED <<is_running, automation, returned>>
    /\ UNCHANGED <<ctlVars, loopVars, loginVars, captchaVars, cfgVars, unitVars>>

ProgressReport_ZeroBased(i, total) == <<i - 1, total>>

\* run(), line 171:  self.on_progress_update(idx + 1, total), where the
\* loop variable of the code counts from 0 and the model's from 1
ProgressReport(i, total) == <<i, total>>

\* on_progress_update(idx + 1, total) and the call of process_account,
\* whose first statement creates the result of create_account
StartRecord ==
    /\ progress' = Append(progress, ProgressReport(idx, Len(accounts)))
    /\ started' = Append(started, idx)
    /\ cur' = NewResult(accounts[idx].row_number)
    /\ pc' = "create"
    /\ UNCHANGED <<accounts, enabled_idx, results, idx, writes>>

StopCheck_OnlyWhenPaused == should_stop /\ is_paused

\* run(), line 161:  if self.should_stop
StopCheck == should_stop

\* head of the for loop and the stop check
LoopTop ==
    /\ pc = "loop_top"
    /\ IF idx > Len(accounts)
       THEN pc' = "finally" /\ exitKind' = "normal"
       ELSE IF StopCheck
            THEN pc' = "finally" /\ exitKind' = "stopped"
            ELSE pc' = "pause_check" /\ UNCHANGED exitKind
    /\ UNCHANGED <<is_running, automation, returned, browser, closeCalls>>
    /\ UNCHANGED <<ctlVars, loopVars, loginVars, captchaVars, cfgVars, unitVars>>

\* while self.is_paused: ... ; when the flag is clear the record starts
PauseCheck ==
    /\ pc = "pause_check"
    /\ IF is_paused
       THEN pc' = "pause_sleep" /\ UNCHANGED loopVars
       ELSE StartRecord
    /\ UNCHANGED <<ctlVars, runVars, loginVars, captchaVars, cfgVars, unitVars>>

\* after asyncio.sleep(1) in the pause loop:  if self.should_stop: break
\* leaves the while loop only, the statements after it follow
PauseWake ==
    /\ pc = "pause_sleep"
    /\ IF should_stop
       THEN StartRecord
       ELSE pc' = "pause_check" /\ UNCHANGED loopVars
    /\ UNCHANGED <<ctlVars, runVars, loginVars, captchaVars, cfgVars, unitVars>>

AppendResult_DropFailed(rs, r) == IF r.success THEN Append(rs, r) ELSE rs

\* self.results.append(result)
AppendResult(rs, r) == Append(rs, r)

\* asyncio.sleep(2) between two records, then the next iteration
Delay ==
    /\ pc = "delay"
    /\ idx' = idx + 1
    /\ pc' = "loop_top"
    /\ UNCHANGED <<accounts, enabled_idx, results, started, progress, cur, writes>>
    /\ UNCHANGED <<ctlVars, runVars, loginVars, captchaVars, cfgVars, unitVars>>

TearDownNeeded_OnlyWhenOpen == automation /\ browser = "open"

\* run(), line 204:  if self.automation
TearDownNeeded == automation

\* the finally block (automation.stop() when an automation exists) and the
\* return: [] on the early returns, self.results otherwise
Finally ==
    /\ pc = "finally"
    /\ IF TearDownNeeded
       THEN /\ closeCalls' = closeCalls + 1
            /\ browser' = IF browser = "none" THEN "none" ELSE "closed"
       ELSE UNCHANGED <<closeCalls, browser>>
    /\ is_running' = FALSE
    /\ returned' = IF exitKind \in EarlyReturnKinds THEN <<>> ELSE results
    /\ pc' = "done"
    /\ UNCHANGED <<automation, exitKind>>
    /\ UNCHANGED <<ctlVars, loopVars, loginVars, captchaVars, cfgVars, unitVars>>

\* ------------------------------------------------ worker: challenge gate
CaptchaWaitEntry_AlwaysCallback == "captcha_notify"

\* _wait_for_captcha_completion: with a callback the wait is the
\* callback, without one a fixed sleep
CaptchaWaitEntry == IF captchaWired THEN "captcha_notify" ELSE "captcha_sleep"

\* captcha_callback: worker_signals.captcha_required.emit()
CaptchaNotify ==
    /\ pc = "captcha_notify"
    /\ sigQueue' = sigQueue + 1
    /\ waits' = waits + 1
    /\ pc' = "captcha_poll"
    /\ UNCHANGED <<captcha_event, openDialogs, captchaRet, acks, consumed>>
    /\ UNCHANGED <<ctlVars, loopVars, runVars, loginVars, cfgVars, unitVars>>

PollEnds_Inverted(event) == ~event

\* captcha_callback: the poll loop ends when the event is set
PollEnds(event) == event

ConsumeEvent_NotCleared(event) == event

\* captcha_callback, line 954:  self._captcha_event.clear()
ConsumeEvent(event) == FALSE

\* captcha_callback: while not event.is_set(): sleep(0.5); event.clear()
CaptchaPoll ==
    /\ pc = "captcha_poll"
    /\ PollEnds(captcha_event)
    /\ captcha_event' = ConsumeEvent(captcha_event)
    /\ consumed' = consumed + 1
    /\ waits' = waits - 1
    /\ pc' = captchaRet
    /\ captchaRet' = "none"
    /\ UNCHANGED <<sigQueue, openDialogs, acks>>
    /\ UNCHANGED <<ctlVars, loopVars, runVars, loginVars, cfgVars, unitVars>>

\* no callback: await asyncio.sleep(60)
CaptchaSleep ==
    /\ pc = "captcha_sleep"
    /\ pc' = captchaRet
    /\ captchaRet' = "none"
    /\ UNCHANGED <<captcha_event, sigQueue, openDialogs, waits, acks, consumed>>
    /\ UNCHANGED <<ctlVars, loopVars, runVars, loginVars, cfgVars, unitVars>>

\* --------------------------------------- control context: challenge dialog
\* LineAutomationApp._on_captcha_required: the queued signal is delivered
\* and the modal dialog opens
OnCaptchaRequired ==
    /\ sigQueue > 0
    /\ sigQueue' = sigQueue - 1
    /\ openDialogs' = openDialogs + 1
    /\ UNCHANGED <<captcha_event, waits, captchaRet, acks, consumed>>
    /\ UNCHANGED <<pc, ctlVars, loopVars, runVars, loginVars, cfgVars, unitVars>>

AcceptedEvent_NotSet(event) == event

\* _on_captcha_required, line 980:  self._captcha_event.set()
AcceptedEvent(event) == TRUE

\* dialog.exec() returned Accepted: the event is set
DialogAccepted ==
    /\ openDialogs > 0
    /\ openDialogs' = openDialogs - 1
    /\ captcha_event' = AcceptedEvent(captcha_event)
    /\ acks' = acks + 1
    /\ UNCHANGED <<sigQueue, waits, captchaRet, consumed>>
    /\ UNCHANGED <<pc, ctlVars, loopVars, runVars, loginVars, cfgVars, unitVars>>

\* dialog.exec() returned Rejected (closed without the button): nothing
DialogRejected ==
    /\ openDialogs > 0
    /\ openDialogs' = openDialogs - 1
    /\ UNCHANGED <<captcha_event, sigQueue, waits, captchaRet, acks, consumed>>
    /\ UNCHANGED <<pc, ctlVars, loopVars, runVars, loginVars, cfgVars, unitVars>>

\* ------------------------------------------------- SessionManager (files)
\* clear_session: the file is unlinked, or an I/O error leaves it
ClearOutcomes(f) == {"absent", f}
\* save_session: the file is written, or an I/O error leaves it
SaveOutcomes(f) == {"valid", f}

\* ------------------------------------------------ worker: LineAutomation
login_NoFallback(restored) == IF restored THEN "loop_top" ELSE "login_failed"

login_AlwaysCredentials(restored) == "cred_nav"

\* login(): restored -> return True, otherwise _login_with_credentials()
login(restored) == IF restored THEN "loop_top" ELSE "cred_nav"

\* _try_restore_session, line 127: the test for a restored session
SessionRestored(url) == Contains(url, "manager.line.biz") /\ ~Contains(url, "login")

\* _try_restore_session followed by the branch of login()
TryRestoreSession ==
    /\ pc = "restore"
    /\ loginCalls' = loginCalls + 1
    /\ \/ /\ session_file = "absent"
          /\ restoreOutcome' = "no_session"
          /\ pc' = login(FALSE)
          /\ UNCHANGED <<is_logged_in, current_url, session_file, clearCalls,
                         loginResult, idx>>
       \/ /\ session_file = "unreadable"
          /\ restoreOutcome' = "unreadable"
          /\ pc' = login(FALSE)
          /\ UNCHANGED <<is_logged_in, current_url, session_file, clearCalls,
                         loginResult, idx>>
       \/ /\ session_file = "valid"
          /\ restoreOutcome' = "exception"
          /\ pc' = login(FALSE)
          /\ UNCHANGED <<is_logged_in, current_url, session_file, clearCalls,
                         loginResult, idx>>
       \/ /\ session_file = "valid"
          /\ \E u \in LandingUrls :
                /\ current_url' = u
                /\ IF SessionRestored(u)
                   THEN /\ is_logged_in' = TRUE
                        /\ restoreOutcome' = "ok"
                        /\ pc' = login(TRUE)
                        /\ loginResult' = IF login(TRUE) = "loop_top" THEN "true" ELSE loginResult
                        /\ idx' = 1
                        /\ UNCHANGED <<session_file, clearCalls>>
                   ELSE /\ restoreOutcome' = "login_surface"
                        /\ clearCalls' = clearCalls + 1
                        /\ session_file' \in ClearOutcomes(session_file)
                        /\ pc' = login(FALSE)
                        /\ UNCHANGED <<is_logged_in, loginResult, idx>>
    /\ UNCHANGED <<saveCalls, credLoginCalls>>
    /\ UNCHANGED <<accounts, enabled_idx, results, started, progress, cur, writes>>
    /\ UNCHANGED <<ctlVars, runVars, captchaVars, cfgVars, unitVars>>

\* the success branch of _login_with_credentials: is_logged_in, log,
\* _save_session (cookies() may raise, then save_session is not called)
LoginSucceeded ==
    /\ is_logged_in' = TRUE
    /\ \/ UNCHANGED <<saveCalls, session_file>>
       \/ /\ saveCalls' = saveCalls + 1
          /\ session_file' \in SaveOutcomes(session_file)
    /\ loginResult' = "true"
    /\ idx' = FirstIndex(AfterLogin(TRUE), idx)
    /\ pc' = AfterLogin(TRUE)

\* _login_with_credentials up to the first challenge check
LoginWithCredentials ==
    /\ pc = "cred_nav"
    /\ credLoginCalls' = credLoginCalls + 1
    /\ \/ \* navigate(LINE_LOGIN_URL) raises: outside the try, run() catches
          /\ loginResult' = "raised"
          /\ exitKind' = "exception"
          /\ pc' = "finally"
          /\ UNCHANGED <<captchaRet, idx>>
       \/ \* an exception inside the try: return False
          /\ loginResult' = "false"
          /\ pc' = AfterLogin(FALSE)
          /\ idx' = FirstIndex(AfterLogin(FALSE), idx)
          /\ UNCHANGED <<exitKind, captchaRet>>
       \/ \* _detect_captcha() is true
          /\ pc' = CaptchaWaitEntry
          /\ captchaRet' = "cred_waiturl"
          /\ UNCHANGED <<exitKind, loginResult, idx>>
       \/ /\ pc' = "cred_waiturl"
          /\ UNCHANGED <<exitKind, loginResult, captchaRet, idx>>
    /\ UNCHANGED <<is_logged_in, current_url, session_file, restoreOutcome, loginCalls,
                   clearCalls, saveCalls>>
    /\ UNCHANGED <<is_running, automation, returned, browser, closeCalls>>
    /\ UNCHANGED <<captcha_event, sigQueue, openDialogs, waits, acks, consumed>>
    /\ UNCHANGED <<accounts, enabled_idx, results, started, progress, cur, writes>>
    /\ UNCHANGED <<ctlVars, cfgVars, unitVars>>

\* page.wait_for_url("**/manager.line.biz/**", timeout=10000) and, on
\* timeout, the second challenge check
WaitForHome ==
    /\ pc = "cred_waiturl"
    /\ \E u \in LandingUrls :
          /\ current_url' = u
          /\ IF WaitForUrlMatches(u)
             THEN LoginSucceeded /\ UNCHANGED captchaRet
             ELSE /\ \/ pc' = CaptchaWaitEntry /\ captchaRet' = "cred_reread"
                     \/ pc' = "cred_final" /\ UNCHANGED captchaRet
                  /\ UNCHANGED <<is_logged_in, saveCalls, session_file,
                                 loginResult, idx>>
    /\ UNCHANGED <<restoreOutcome, loginCalls, clearCalls, credLoginCalls>>
    /\ UNCHANGED <<accounts, enabled_idx, results, started, progress, cur, writes>>
    /\ UNCHANGED <<captcha_event, sigQueue, openDialogs, waits, acks, consumed>>
    /\ UNCHANGED <<ctlVars, runVars, cfgVars, unitVars>>

\* after the second challenge wait: current_url is read again
RereadUrl ==
    /\ pc = "cred_reread"
    /\ \E u \in LandingUrls : current_url' = u
    /\ pc' = "cred_final"
    /\ UNCHANGED <<is_logged_in, session_file, restoreOutcome, loginCalls, clearCalls,
                   saveCalls, credLoginCalls, loginResult>>
    /\ UNCHANGED <<ctlVars, loopVars, runVars, captchaVars, cfgVars, unitVars>>

\* _login_with_credentials, line 267: the fallback test for a landing on
\* the home surface
LandedOnHome(url) == Contains(url, "manager.line.biz")

\* the fallback branch of _login_with_credentials
LoginFallback ==
    /\ pc = "cred_final"
    /\ IF LandedOnHome(current_url)
       THEN UNCHANGED current_url /\ LoginSucceeded
       ELSE /\ loginResult' = "false"
            /\ pc' = AfterLogin(FALSE)
            /\ idx' = FirstIndex(AfterLogin(FALSE), idx)
            /\ UNCHANGED <<is_logged_in, current_url, saveCalls, session_file>>
    /\ UNCHANGED <<restoreOutcome, loginCalls, clearCalls, credLoginCalls>>
    /\ UNCHANGED <<accounts, enabled_idx, results, started, progress, cur, writes>>
    /\ UNCHANGED <<ctlVars, runVars, captchaVars, cfgVars, unitVars>>

\* -------------------------------------- worker: one record's workflow
\* create_account, the except branch: error_message = str(e)
RecordFailed_NoMessage(r) == r

RecordFailed(r) == [r EXCEPT !.error_message = "error"]

\* create_account from the navigation to the challenge check that follows
\* the submission of the form
CreateAccount ==
    /\ pc = "create"
    /\ \/ \* browser.navigate(LINE_MANAGER_URL) raises
          /\ cur' = RecordFailed(cur)
          /\ pc' = "writeback"
          /\ UNCHANGED <<current_url, captchaRet>>
       \/ \* a later step of the form raises
          /\ cur' = RecordFailed(cur)
          /\ pc' = "writeback"
          /\ current_url' = LINE_MANAGER_URL
          /\ UNCHANGED captchaRet
       \/ \* _detect_captcha() is true
          /\ pc' = CaptchaWaitEntry
          /\ captchaRet' = "create_post"
          /\ current_url' = LINE_MANAGER_URL
          /\ UNCHANGED cur
       \/ /\ pc' = "create_post"
          /\ current_url' = LINE_MANAGER_URL
          /\ UNCHANGED <<cur, captchaRet>>
    /\ UNCHANGED <<is_logged_in, session_file, restoreOutcome, loginCalls, clearCalls,
                   saveCalls, credLoginCalls, loginResult>>
    /\ UNCHANGED <<accounts, enabled_idx, results, idx, started, progress, writes>>
    /\ UNCHANGED <<captcha_event, sigQueue, openDialogs, waits, acks, consumed>>
    /\ UNCHANGED <<ctlVars, runVars, cfgVars, unitVars>>

\* create_account, lines 410-414: the identifier is taken from the URL and
\* stored; no test of the value follows
IdentifierStep(r, url) == [r EXCEPT !.basic_id = _extract_basic_id(url)]

\* create_account from the verification skip to the identifier
CreateAccountPost ==
    /\ pc = "create_post"
    /\ \/ /\ cur' = RecordFailed(cur)
          /\ pc' = "writeback"
          /\ UNCHANGED current_url
       \/ \E u \in PostCreationUrls :
            /\ current_url' = u
            /\ cur' = IdentifierStep(cur, u)
            /\ pc' = "phases"
    /\ UNCHANGED <<is_logged_in, session_file, restoreOutcome, loginCalls, clearCalls,
                   saveCalls, credLoginCalls, loginResult>>
    /\ UNCHANGED <<accounts, enabled_idx, results, idx, started, progress, writes>>
    /\ UNCHANGED <<ctlVars, runVars, captchaVars, cfgVars, unitVars>>

PhasesSucceed_NeedsToken(o) == o.access_token # ""

\* create_account, line 436: result.success = True, whatever the phases
\* left in their slots
PhasesSucceed(o) == TRUE

\* create_account, lines 417-437: the icon, capability, permission, link
\* and credential phases catch their own errors; then success = True
RunPhases ==
    /\ pc = "phases"
    /\ \E o \in PhaseOutputs :
          cur' = [cur EXCEPT !.permission_link = o.permission_link,
                             !.friend_link = o.friend_link,
                             !.access_token = o.access_token,
                             !.success = PhasesSucceed(o)]
    /\ pc' = "writeback"
    /\ current_url' \in {LINE_DEVELOPERS_URL, FriendUrlPage}
    /\ UNCHANGED <<is_logged_in, session_file, restoreOutcome, loginCalls, clearCalls,
                   saveCalls, credLoginCalls, loginResult>>
    /\ UNCHANGED <<accounts, enabled_idx, results, idx, started, progress, writes>>
    /\ UNCHANGED <<ctlVars, runVars, captchaVars, cfgVars, unitVars>>

\* one update_cell call of process_account
Cell(row, col, value) == [row |-> row, col |-> col, value |-> value]

HasValue_Always(v) == TRUE

\* process_account:  if result.<field> and ...   (a non-empty string)
HasValue(v) == v # ""

\* process_account:  column_config.get(key, '-') != '-'
Configured(col) == col # Sentinel

\* one conditional update_cell call
CallIf(cond, cell) == IF cond THEN <<cell>> ELSE <<>>

\* process_account, lines 917-956: the update_cell calls for a result, in
\* the order of the code
WriteBackCells(r, cfg) ==
    IF r.success
    THEN CallIf(HasValue(r.basic_id) /\ Configured(cfg.col_basic_id),
                Cell(r.row_number, cfg.col_basic_id, r.basic_id))
         \o CallIf(HasValue(r.permission_link) /\ Configured(cfg.col_permission_link),
                   Cell(r.row_number, cfg.col_permission_link, r.permission_link))
         \o CallIf(HasValue(r.friend_link) /\ Configured(cfg.col_friend_link),
                   Cell(r.row_number, cfg.col_friend_link, r.friend_link))
         \o CallIf(HasValue(r.access_token) /\ Configured(cfg.col_access_token),
                   Cell(r.row_number, cfg.col_access_token, r.access_token))
         \o CallIf(Configured(cfg.col_business_account),
                   Cell(r.row_number, cfg.col_business_account, "email"))
    ELSE <<>>

AfterAppend_AbortOnFailure(r) == IF r.success THEN "delay" ELSE "finally"

\* run(), lines 185-188: after the append the pacing delay follows,
\* whatever the result is
AfterAppend(r) == "delay"

\* the rest of process_account and  self.results.append(result)  of run()
WriteBackAndAppend ==
    /\ pc = "writeback"
    /\ writes' = writes \o WriteBackCells(cur, column_config)
    /\ results' = AppendResult(results, cur)
    /\ cur' = NoResult
    /\ pc' = AfterAppend(cur)
    /\ UNCHANGED <<accounts, enabled_idx, idx, started, progress>>
    /\ UNCHANGED <<ctlVars, runVars, loginVars, captchaVars, cfgVars, unitVars>>

\* ------------------------------------------------------------- behaviours
\* the worker when on_captcha_required is wired (no fixed sleep)
WorkerWired ==
    \/ RunBegin \/ Connect \/ FetchAccounts \/ FilterRows \/ Launch
    \/ TryRestoreSession \/ LoginWithCredentials \/ WaitForHome
    \/ RereadUrl \/ LoginFallback \/ LoginFailed
    \/ LoopTop \/ PauseCheck \/ PauseWake
    \/ CreateAccount \/ CreateAccountPost \/ RunPhases \/ WriteBackAndAppend
    \/ Delay \/ Finally
    \/ CaptchaNotify \/ CaptchaPoll

Worker == WorkerWired \/ CaptchaSleep

Control ==
    \/ pause \/ resume \/ stop
    \/ OnCaptchaRequired \/ DialogAccepted \/ DialogRejected

Next == Worker \/ Control

Spec == Init /\ [][Next]_vars

\* The runs of LineAutomationApp: the callback is wired; the asyncio loop
\* runs the worker whenever it can take a step.  The artifact file is
\* readable or absent at the start.
WiredInit == Init /\ captchaWired /\ session_file # "unreadable"

WiredNext == WorkerWired \/ Control

FairSpec == WiredInit /\ [][WiredNext]_vars /\ WF_vars(WorkerWired)

\* The runs of run_automation_sync and of any caller that passes no
\* on_captcha_required: no signal, no dialog, the fixed sleep instead.
WorkerUnwired ==
    \/ RunBegin \/ Connect \/ FetchAccounts \/ FilterRows \/ Launch
    \/ TryRestoreSession \/ LoginWithCredentials \/ WaitForHome
    \/ RereadUrl \/ LoginFallback \/ LoginFailed
    \/ LoopTop \/ PauseCheck \/ PauseWake
    \/ CreateAccount \/ CreateAccountPost \/ RunPhases \/ WriteBackAndAppend
    \/ Delay \/ Finally
    \/ CaptchaSleep

UnwiredInit == Init /\ ~captchaWired

UnwiredNext == WorkerUnwired \/ pause \/ resume \/ stop

UnwiredSpec == UnwiredInit /\ [][UnwiredNext]_vars /\ WF_vars(WorkerUnwired)

\* ------------------------------------- runs with failing collaborators
\* The status and progress callbacks and the tear-down are calls into code
\* that can raise.  The runs above take them to return; the runs below let
\* such a call raise inside the record loop, and again while that exception
\* is handled.

\* An exception leaves the record loop: self.log (line 162), the progress
\* or status callback (lines 171-173), or process_account, where the
\* handler of create_account logs through the status callback (line 441).
\* The result of the record in flight is a local of the frame that is left.
RaisesInLoop ==
    /\ \/ pc = "loop_top" /\ idx <= Len(accounts) /\ StopCheck
       \/ pc = "pause_check" /\ ~is_paused
       \/ pc = "pause_sleep" /\ should_stop
       \/ pc \in {"create", "create_post", "phases"}
    /\ pc' = "except"
    /\ cur' = NoResult
    /\ UNCHANGED <<accounts, enabled_idx, results, idx, started, progress, writes>>
    /\ UNCHANGED <<ctlVars, runVars, loginVars, captchaVars, cfgVars, unitVars>>

\* run(), lines 199-200: the handler reports through self.log, the status
\* callback again; the call returns, or raises out of the handler
HandlerOutcomes == {"finally", "unwind"}

\* except Exception as e: self.log(...)
HandleException ==
    /\ pc = "except"
    /\ \E target \in HandlerOutcomes :
          /\ pc' = target
          /\ exitKind' = IF target = "finally" THEN "exception" ELSE exitKind
    /\ UNCHANGED <<is_running, automation, returned, browser, closeCalls>>
    /\ UNCHANGED <<ctlVars, loopVars, loginVars, captchaVars, cfgVars, unitVars>>

\* the finally block while an exception propagates: automation.stop()
\* returns and line 206 follows, or it raises (its first statement is a
\* self.log) and line 206 is skipped; then run() raises to its caller
Unwind ==
    /\ pc = "unwind"
    /\ IF TearDownNeeded
       THEN /\ closeCalls' = closeCalls + 1
            /\ \/ /\ browser' = IF browser = "none" THEN "none" ELSE "closed"
                  /\ is_running' = FALSE
               \/ UNCHANGED <<browser, is_running>>
       ELSE /\ is_running' = FALSE
            /\ UNCHANGED <<closeCalls, browser>>
    /\ exitKind' = "raised"
    /\ pc' = "done"
    /\ UNCHANGED <<automation, returned>>
    /\ UNCHANGED <<ctlVars, loopVars, loginVars, captchaVars, cfgVars, unitVars>>

FaultyNext == Next \/ RaisesInLoop \/ HandleException \/ Unwind

FaultySpec == Init /\ [][FaultyNext]_vars

\* ============================================ SheetsClient.get_enabled_rows
\* A cell is the sequence of its characters.  The two Japanese tokens of
\* ENABLED_VALUES are written with one name per character:
\* <<"hiragana_ha", "hiragana_i">> and <<"kanji_yuu", "kanji_kou">>;
\* str.upper() leaves them as they are.
MaxDataRows == 2

MAX_ACCOUNTS == 100

ENABLED_VALUES ==
    { <<"T", "R", "U", "E">>, <<"1">>, <<"hiragana_ha", "hiragana_i">>, <<"Y", "E", "S">>,
      <<"kanji_yuu", "kanji_kou">> }

\* str.upper()
UpperStr(s) == [i \in DOMAIN s |-> Upper(s[i])]

\* str.strip(): leading and trailing blanks removed
RECURSIVE LStrip(_)
LStrip(s) == IF s # <<>> /\ Head(s) = " " THEN LStrip(Tail(s)) ELSE s

RECURSIVE RStrip(_)
RStrip(s) ==
    IF s # <<>> /\ s[Len(s)] = " " THEN RStrip(SubSeq(s, 1, Len(s) - 1)) ELSE s

Strip(s) == RStrip(LStrip(s))

IsEnabledValue_CaseSensitive(cell) == Strip(cell) \in ENABLED_VALUES

\* enabled_value = row[enabled_idx].strip().upper(); enabled_value in ENABLED_VALUES
IsEnabledValue(cell) == UpperStr(Strip(cell)) \in ENABLED_VALUES

\* AccountRow(row_number=row_idx, enabled=True, ...)
AccountRow(n) == [row_number |-> n]

\* cells of the enabled column
CellValues ==
    { <<"T", "R", "U", "E">>, <<" ", "t", "r", "u", "E", " ">>, <<"1">>,
      <<"y", "e", "s">>, <<"hiragana_ha", "hiragana_i">>, <<"kanji_yuu", "kanji_kou">>,
      <<"F", "A", "L", "S", "E">>, <<>> }

\* rows: empty, the flag in column A, or a name in column A and the flag in B
SheetRowValues ==
    {<<>>} \cup { <<v>> : v \in CellValues } \cup { <<<<"n">>, v>> : v \in CellValues }

\* header rows look like enabled rows, so that skipping them shows
HeaderRow == << <<"T", "R", "U", "E">>, <<"T", "R", "U", "E">> >>

\* the sheet of the end-to-end scenario: "TRUE", "1", "有効", "FALSE"
ScenarioSheet ==
    <<HeaderRow, HeaderRow, << <<"T", "R", "U", "E">> >>, << <<"1">> >>,
      << <<"kanji_yuu", "kanji_kou">> >>, << <<"F", "A", "L", "S", "E">> >> >>

\* a sheet with more enabled rows than MAX_ACCOUNTS
LongSheet ==
    [i \in 1..(HEADER_ROWS + MAX_ACCOUNTS + 2) |->
        IF i <= HEADER_ROWS THEN HeaderRow ELSE << <<"T", "R", "U", "E">> >>]

Sheets ==
    { [i \in 1..n |-> HeaderRow] : n \in 0..HEADER_ROWS }
    \cup { [i \in 1..HEADER_ROWS |-> HeaderRow] \o d :
             d \in UNION { [1..n -> SheetRowValues] : n \in 1..MaxDataRows } }
    \cup { ScenarioSheet, LongSheet }

\* the letters tried for col_enabled
SheetColumns == { Sentinel, <<>>, <<"A">>, <<"B">>, <<"b">>, <<"C">>, <<"A", "A">> }

SheetInit ==
    /\ RunnerInit /\ session_file = "absent" /\ ~captchaWired
    /\ WriteBackIdle /\ AppIdle
    /\ column_config.col_enabled \in SheetColumns
    /\ StoreIdle /\ AssetIdle /\ FlowIdle /\ TabsIdle /\ ModalIdle
    /\ worksheet \in BOOLEAN
    /\ all_values \in Sheets
    /\ row_idx = 0 /\ enabled_rows = <<>> /\ sheetRet = "none"

\* get_enabled_rows up to the loop: a sheet without data rows returns []
GetEnabledRowsBegin ==
    /\ sheetRet = "none" /\ worksheet
    /\ IF Len(all_values) < HEADER_ROWS + 1
       THEN sheetRet' = "returned" /\ UNCHANGED row_idx
       ELSE sheetRet' = "loop" /\ row_idx' = HEADER_ROWS + 1
    /\ enabled_rows' = <<>>
    /\ UNCHANGED <<worksheet, all_values>>
    /\ UNCHANGED <<vars_runner, writeVars, appVars, storeVars, assetVars, flowVars, tabVars, modalVars>>

\* one iteration of the loop over all_values[HEADER_ROWS:], row_idx counting
\* from HEADER_ROWS + 1, or its end (rows exhausted, or the break)
RowLoop ==
    /\ sheetRet = "loop"
    /\ LET e_idx == _col_letter_to_index(column_config.col_enabled)
       IN IF row_idx > Len(all_values) \/ Len(enabled_rows) >= MAX_ACCOUNTS
          THEN sheetRet' = "returned" /\ UNCHANGED <<row_idx, enabled_rows>>
          ELSE /\ row_idx' = row_idx + 1
               /\ UNCHANGED sheetRet
               /\ IF e_idx < 0 \/ e_idx >= Len(all_values[row_idx])
                  THEN UNCHANGED enabled_rows
                  ELSE IF ~IsEnabledValue(all_values[row_idx][e_idx + 1])
                  THEN UNCHANGED enabled_rows
                  ELSE enabled_rows' = Append(enabled_rows, AccountRow(row_idx))
    /\ UNCHANGED <<worksheet, all_values>>
    /\ UNCHANGED <<vars_runner, writeVars, appVars, storeVars, assetVars, flowVars, tabVars, modalVars>>

\* get_enabled_rows without a worksheet raises ValueError; get_all_values
\* of a connected worksheet can raise as well
GetEnabledRowsRaises ==
    /\ sheetRet = "none"
    /\ sheetRet' = "raised"
    /\ UNCHANGED <<worksheet, all_values, row_idx, enabled_rows>>
    /\ UNCHANGED <<vars_runner, writeVars, appVars, storeVars, assetVars, flowVars, tabVars, modalVars>>

SheetNext == GetEnabledRowsBegin \/ RowLoop \/ GetEnabledRowsRaises

SheetSpec == SheetInit /\ [][SheetNext]_vars

\* ============================================================ SessionManager
\* The artifact file is [exists, text]; its text is a sequence of tokens.
MaxCookies == 2

CookieNames == {"sid", "tok"}

\* context.cookies(): the lists save_session is called with
CookieLists == UNION { [1..n -> CookieNames] : n \in 0..MaxCookies }

\* session_data of save_session; no caller passes storage_state
SessionData(cookies) == [cookies |-> cookies, storage_state |-> {}]

\* json.dump(session_data, f): an opening token, the cookies, a closing token
JsonDump(data) == <<"{">> \o data.cookies \o <<"}">>

\* json.load(f) accepts a complete text only (else JSONDecodeError)
JsonValid(text) == Len(text) >= 2 /\ text[1] = "{" /\ text[Len(text)] = "}"

JsonLoad(text) == SessionData(SubSeq(text, 2, Len(text) - 1))

NoFile == [exists |-> FALSE, text |-> <<>>]

File(text) == [exists |-> TRUE, text |-> text]

\* open(..., 'w') truncates: a write that fails leaves a proper prefix
TruncatedFiles(text) == { File(SubSeq(text, 1, n)) : n \in 0..(Len(text) - 1) }

\* the record of one call: the operation, its argument, the boolean it
\* returned, the value load_session returned (<<>> is None), whether an
\* I/O error occurred, whether an exception left the method, and the last
\* save / clear before it
Call(op, arg, ok, loaded, io, raised, last_write, last_saved) ==
    [op |-> op, arg |-> arg, ok |-> ok, loaded |-> loaded, io_error |-> io,
     raised |-> raised, last_write |-> last_write, last_saved |-> last_saved]

NoCall == Call("none", <<>>, FALSE, <<>>, FALSE, FALSE, "none", <<>>)

StoreInit ==
    /\ RunnerAtRest
    /\ WriteBackIdle /\ AppIdle
    /\ SheetIdle /\ AssetIdle /\ FlowIdle /\ TabsIdle /\ ModalIdle
    /\ artifact \in {NoFile}
                    \cup { File(JsonDump(SessionData(c))) : c \in CookieLists }
                    \cup TruncatedFiles(JsonDump(SessionData(<<"sid">>)))
    /\ storeCall = NoCall

\* SessionManager.save_session
save_session ==
    \E c \in CookieLists :
        LET text == JsonDump(SessionData(c))
        IN \/ /\ artifact' = File(text)
              /\ storeCall' = Call("save", c, TRUE, <<>>, FALSE, FALSE, "save_ok", c)
           \/ /\ artifact' \in {artifact} \cup TruncatedFiles(text)
              /\ storeCall' = Call("save", c, FALSE, <<>>, TRUE, FALSE,
                                   "save_failed", storeCall.last_saved)
    /\ UNCHANGED <<vars_runner, writeVars, appVars, sheetVars, assetVars, flowVars, tabVars, modalVars>>

\* SessionManager.load_session
load_session ==
    /\ \/ storeCall' = Call("load", <<>>, FALSE, <<>>, TRUE, FALSE,
                            storeCall.last_write, storeCall.last_saved)
       \/ storeCall' =
            IF artifact.exists /\ JsonValid(artifact.text)
            THEN Call("load", <<>>, TRUE, <<JsonLoad(artifact.text)>>, FALSE, FALSE,
                      storeCall.last_write, storeCall.last_saved)
            ELSE Call("load", <<>>, FALSE, <<>>, FALSE, FALSE,
                      storeCall.last_write, storeCall.last_saved)
    /\ UNCHANGED artifact
    /\ UNCHANGED <<vars_runner, writeVars, appVars, sheetVars, assetVars, flowVars, tabVars, modalVars>>

\* SessionManager.has_session: exists() outside any try
has_session ==
    /\ \/ storeCall' = Call("has", <<>>, artifact.exists, <<>>, FALSE, FALSE,
                            storeCall.last_write, storeCall.last_saved)
       \/ storeCall' = Call("has", <<>>, FALSE, <<>>, TRUE, TRUE,
                            storeCall.last_write, storeCall.last_saved)
    /\ UNCHANGED artifact
    /\ UNCHANGED <<vars_runner, writeVars, appVars, sheetVars, assetVars, flowVars, tabVars, modalVars>>

UnlinkNeeded_Always(f) == TRUE

\* clear_session: if self.session_file.exists()
UnlinkNeeded(f) == f.exists

\* SessionManager.clear_session: unlink raises on a missing file
clear_session ==
    /\ IF UnlinkNeeded(artifact)
       THEN \/ /\ artifact.exists
               /\ artifact' = NoFile
               /\ storeCall' = Call("clear", <<>>, TRUE, <<>>, FALSE, FALSE,
                                    "clear_ok", storeCall.last_saved)
            \/ /\ UNCHANGED artifact
               /\ storeCall' = Call("clear", <<>>, FALSE, <<>>, TRUE, FALSE,
                                    "clear_failed", storeCall.last_saved)
       ELSE /\ UNCHANGED artifact
            /\ storeCall' = Call("clear", <<>>, TRUE, <<>>, FALSE, FALSE,
                                 "clear_ok", storeCall.last_saved)
    /\ UNCHANGED <<vars_runner, writeVars, appVars, sheetVars, assetVars, flowVars, tabVars, modalVars>>

StoreNext == save_session \/ load_session \/ has_session \/ clear_session

StoreSpec == StoreInit /\ [][StoreNext]_vars

\* ============================ ImageDownloader and the phases of one record
\* An icon url is the sequence of its characters; a local path is the
\* running number of the download followed by the url it was named after;
\* <<>> is the empty string.
MaxIcons == 2

\* str.lower() on one character
Lower(c) ==
    IF \E i \in DOMAIN Alphabet : Alphabet[i] = c
    THEN LowerAlphabet[CHOOSE i \in DOMAIN Alphabet : Alphabet[i] = c]
    ELSE c

\* re.sub(r'\?.*$', '', url): the url up to its first question mark
RECURSIVE BeforeQuery(_)
BeforeQuery(url) ==
    IF url = <<>> \/ Head(url) = "?"
    THEN <<>>
    ELSE <<Head(url)>> \o BeforeQuery(Tail(url))

_normalize_url_KeepsCase(url) == BeforeQuery(url)

\* ImageDownloader._normalize_url
_normalize_url(url) == [i \in DOMAIN BeforeQuery(url) |-> Lower(BeforeQuery(url)[i])]

\* a dict as a function: d[k] = v and d.get(k, default)
Put(d, k, v) == [x \in DOMAIN d \cup {k} |-> IF x = k THEN v ELSE d[x]]

Get(d, k, default) == IF k \in DOMAIN d THEN d[k] ELSE default

\* str(today_folder / f"{len(self.downloaded_urls) + 1:03d}_{base_name}{ext}")
LocalPath(n, url) == <<n>> \o url

\* DownloadResult
DownloadResult(row, url, path, ok) ==
    [row_number |-> row, original_url |-> url, local_path |-> path, success |-> ok]

\* the icon urls of the sheet: empty, blank, two spellings of one file
\* (the second with a query) and another file
IconUrls == { <<>>, <<" ">>, <<"A">>, <<"a", "?", "x">>, <<"b">> }

IconUrlLists == UNION { [1..n -> IconUrls] : n \in 1..MaxIcons }

\* row number of the i-th account
RowOf(i) == HEADER_ROWS + i

IsCached_Never(normalized_url) == FALSE

\* if normalized_url in self.downloaded_urls
IsCached(normalized_url) == normalized_url \in DOMAIN downloaded_urls

\* download_all: one iteration, download_image for the next account
DownloadImage ==
    /\ Len(download_results) < Len(icon_urls)
    /\ LET i == Len(download_results) + 1
           url == icon_urls[i]
           row == RowOf(i)
           normalized_url == _normalize_url(url)
           local_path == LocalPath(Cardinality(DOMAIN downloaded_urls) + 1, url)
       IN IF url = <<>> \/ Strip(url) = <<>>
          THEN /\ download_results' =
                     Append(download_results, DownloadResult(row, url, <<>>, FALSE))
               /\ UNCHANGED <<downloaded_urls, row_to_image, fetched>>
          ELSE IF IsCached(normalized_url)
          THEN /\ row_to_image' = Put(row_to_image, row, downloaded_urls[normalized_url])
               /\ download_results' =
                     Append(download_results,
                            DownloadResult(row, url, downloaded_urls[normalized_url], TRUE))
               /\ UNCHANGED <<downloaded_urls, fetched>>
          ELSE \/ /\ downloaded_urls' = Put(downloaded_urls, normalized_url, local_path)
                  /\ row_to_image' = Put(row_to_image, row, local_path)
                  /\ fetched' = Append(fetched, normalized_url)
                  /\ download_results' =
                        Append(download_results,
                               DownloadResult(row, url, local_path, TRUE))
               \/ /\ download_results' =
                        Append(download_results, DownloadResult(row, url, <<>>, FALSE))
                  /\ UNCHANGED <<downloaded_urls, row_to_image, fetched>>
    /\ UNCHANGED icon_urls
    /\ UNCHANGED <<vars_runner, writeVars, appVars, sheetVars, storeVars, flowVars, tabVars, modalVars>>

\* the phases after the identifier, in the order of create_account
PhaseOrder == <<"icon", "capability", "permission", "link", "credential">>

IconNeeded_Always(path) == TRUE

\* create_account: if image_path
IconNeeded(path) == path # <<>>

FirstPhase(path) == IF IconNeeded(path) THEN "icon" ELSE "capability"

\* the statement that follows a phase in create_account
NextPhase(p) ==
    CASE p = "icon" -> "capability"
      [] p = "capability" -> "permission"
      [] p = "permission" -> "link"
      [] p = "link" -> "credential"
      [] p = "credential" -> "completed"

AfterPhaseError_Abort(p) == "failed"

\* except Exception inside the phase: logged, the phase returns normally
AfterPhaseError(p) == NextPhase(p)

\* what a phase can end with: whether its except branch ran, and the value
\* it returns.  _add_permission reads the link before its last click, so an
\* error can follow the value; the other two return "" after an error and
\* when the page shows no value
PhaseOutcomes(p) ==
    CASE p \in {"icon", "capability"} ->
            { [error |-> FALSE, value |-> ""], [error |-> TRUE, value |-> ""] }
      [] p = "permission" ->
            { [error |-> FALSE, value |-> "plink"], [error |-> TRUE, value |-> ""],
              [error |-> TRUE, value |-> "plink"] }
      [] p = "link" ->
            { [error |-> FALSE, value |-> "flink"], [error |-> FALSE, value |-> ""],
              [error |-> TRUE, value |-> ""] }
      [] p = "credential" ->
            { [error |-> FALSE, value |-> "token"], [error |-> FALSE, value |-> ""],
              [error |-> TRUE, value |-> ""] }

\* result.<slot> = <value the phase returned>
StoreSlot(r, p, v) ==
    CASE p = "permission" -> [r EXCEPT !.permission_link = v]
      [] p = "link" -> [r EXCEPT !.friend_link = v]
      [] p = "credential" -> [r EXCEPT !.access_token = v]
      [] OTHER -> r

\* run(): image_path = row_to_image.get(account.row_number, ""), then
\* create_account up to the identifier, which ends in the except branch or
\* goes on to the first phase
BeginRecord ==
    /\ Len(download_results) = Len(icon_urls)
    /\ phase \in {"idle", "completed", "failed"}
    /\ wfRecord < Len(icon_urls)
    /\ wfRecord' = wfRecord + 1
    /\ image_path' = Get(row_to_image, RowOf(wfRecord + 1), <<>>)
    /\ phaseLog' = <<>> /\ phaseErrors' = {}
    /\ \/ /\ wfResult' = [NewResult(RowOf(wfRecord + 1)) EXCEPT !.basic_id = "@id"]
          /\ phase' = FirstPhase(image_path')
       \/ /\ wfResult' = [NewResult(RowOf(wfRecord + 1)) EXCEPT !.error_message = "error"]
          /\ phase' = "failed"
    /\ UNCHANGED <<vars_runner, writeVars, appVars, sheetVars, storeVars, assetVars, tabVars, modalVars>>

\* _change_icon, _enable_messaging_api, _add_permission, _get_friend_link,
\* _get_access_token: the phase runs, its outcome goes to its slot
RunPhase ==
    /\ phase \in { PhaseOrder[i] : i \in DOMAIN PhaseOrder }
    /\ \E o \in PhaseOutcomes(phase) :
          /\ phaseLog' = Append(phaseLog, phase)
          /\ phaseErrors' = IF o.error THEN phaseErrors \cup {phase} ELSE phaseErrors
          /\ phase' = IF o.error THEN AfterPhaseError(phase) ELSE NextPhase(phase)
          /\ wfResult' =
                IF phase' = "failed"
                THEN [wfResult EXCEPT !.error_message = "error"]
                ELSE LET r == StoreSlot(wfResult, phase, o.value)
                     IN IF phase' = "completed" THEN [r EXCEPT !.success = TRUE] ELSE r
    /\ UNCHANGED <<wfRecord, image_path>>
    /\ UNCHANGED <<vars_runner, writeVars, appVars, sheetVars, storeVars, assetVars, tabVars, modalVars>>

WorkflowInit ==
    /\ RunnerAtRest
    /\ WriteBackIdle /\ AppIdle
    /\ SheetIdle /\ StoreIdle /\ TabsIdle /\ ModalIdle
    /\ icon_urls \in IconUrlLists
    /\ downloaded_urls = <<>> /\ row_to_image = <<>>
    /\ download_results = <<>> /\ fetched = <<>>
    /\ FlowIdle

WorkflowNext == DownloadImage \/ BeginRecord \/ RunPhase

WorkflowSpec == WorkflowInit /\ [][WorkflowNext]_vars

\* ========================================================= StealthBrowser
\* Pages are numbered in the order the context created them; context_pages
\* lists the open ones (context.pages), oldest first.
MaxTabs == 3

\* switch_to_new_tab: for _ in range(10)
SWITCH_POLLS == 10

Last(s) == s[Len(s)]

Remove(s, x) == SelectSeq(s, LAMBDA y : y # x)

InSeq(s, x) == \E i \in DOMAIN s : s[i] = x

\* a click of the workflow makes the site open another tab; the page can
\* appear while switch_to_new_tab is polling
TabOpens ==
    /\ tabPc \in {"idle", "switch"}
    /\ nextPageId <= MaxTabs
    /\ context_pages' = Append(context_pages, nextPageId)
    /\ nextPageId' = nextPageId + 1
    /\ UNCHANGED <<page, pages, stealthed, tabPc, polls, tabRet, closeQueue>>
    /\ UNCHANGED <<vars_runner, writeVars, appVars, sheetVars, storeVars, assetVars, flowVars, modalVars>>

\* switch_to_new_tab is called
SwitchBegin ==
    /\ tabPc = "idle"
    /\ tabPc' = "switch" /\ polls' = 0 /\ tabRet' = "pending"
    /\ UNCHANGED <<context_pages, page, pages, stealthed, closeQueue, nextPageId>>
    /\ UNCHANGED <<vars_runner, writeVars, appVars, sheetVars, storeVars, assetVars, flowVars, modalVars>>

RefreshedPages_Stale(ctx) == pages

\* self.pages = pages, pages being context.pages of this poll
RefreshedPages(ctx) == ctx

\* one iteration: sleep, read context.pages, compare its last page with
\* self.page; wait_for_load_state and apply_stealth_async can raise
SwitchPoll ==
    /\ tabPc = "switch" /\ polls < SWITCH_POLLS
    /\ IF context_pages # <<>> /\ Last(context_pages) # page
       THEN /\ tabPc' = "idle" /\ polls' = 0
            /\ \/ /\ tabRet' = "raised"
                  /\ UNCHANGED <<page, pages, stealthed>>
               \/ /\ page' = Last(context_pages)
                  /\ pages' = RefreshedPages(context_pages)
                  /\ \/ /\ stealthed' = stealthed \cup {Last(context_pages)}
                        /\ tabRet' = "switched"
                     \/ /\ tabRet' = "raised"
                        /\ UNCHANGED stealthed
       ELSE /\ polls' = polls + 1
            /\ UNCHANGED <<page, pages, stealthed, tabPc, tabRet>>
    /\ UNCHANGED <<context_pages, closeQueue, nextPageId>>
    /\ UNCHANGED <<vars_runner, writeVars, appVars, sheetVars, storeVars, assetVars, flowVars, modalVars>>

\* the loop ran out: return None
SwitchGiveUp ==
    /\ tabPc = "switch" /\ polls = SWITCH_POLLS
    /\ tabPc' = "idle" /\ polls' = 0 /\ tabRet' = "None"
    /\ UNCHANGED <<context_pages, page, pages, stealthed, closeQueue, nextPageId>>
    /\ UNCHANGED <<vars_runner, writeVars, appVars, sheetVars, storeVars, assetVars, flowVars, modalVars>>

\* close_current_tab: nothing with one listed page; list.remove raises when
\* the current page is not listed; page.close can raise after the removal
CloseCurrentTab ==
    /\ tabPc = "idle"
    /\ IF Len(pages) > 1
       THEN IF InSeq(pages, page)
            THEN /\ pages' = Remove(pages, page)
                 /\ \/ /\ context_pages' = Remove(context_pages, page)
                       /\ page' = Last(Remove(pages, page))
                       /\ tabRet' = "closed_current"
                    \/ /\ tabRet' = "raised"
                       /\ UNCHANGED <<context_pages, page>>
            ELSE /\ tabRet' = "raised"
                 /\ UNCHANGED <<context_pages, page, pages>>
       ELSE /\ tabRet' = "closed_current"
            /\ UNCHANGED <<context_pages, page, pages>>
    /\ UNCHANGED <<stealthed, tabPc, polls, closeQueue, nextPageId>>
    /\ UNCHANGED <<vars_runner, writeVars, appVars, sheetVars, storeVars, assetVars, flowVars, modalVars>>

\* close_other_tabs: pages = self.context.pages, current_page = self.page
CloseOthersBegin ==
    /\ tabPc = "idle"
    /\ tabPc' = "closing" /\ closeQueue' = context_pages /\ tabRet' = "pending"
    /\ UNCHANGED <<context_pages, page, pages, stealthed, polls, nextPageId>>
    /\ UNCHANGED <<vars_runner, writeVars, appVars, sheetVars, storeVars, assetVars, flowVars, modalVars>>

\* one iteration of `for p in pages`: p.close() closes the page, or raises
\* and the exception is dropped (except Exception: pass)
CloseOthersStep ==
    /\ tabPc = "closing" /\ closeQueue # <<>>
    /\ closeQueue' = Tail(closeQueue)
    /\ IF Head(closeQueue) # page /\ InSeq(context_pages, Head(closeQueue))
       THEN \/ context_pages' = Remove(context_pages, Head(closeQueue))
            \/ UNCHANGED context_pages
       ELSE UNCHANGED context_pages
    /\ UNCHANGED <<page, pages, stealthed, tabPc, polls, tabRet, nextPageId>>
    /\ UNCHANGED <<vars_runner, writeVars, appVars, sheetVars, storeVars, assetVars, flowVars, modalVars>>

\* self.pages = [p for p in self.context.pages if not p.is_closed()], and
\* process_account returns
CloseOthersEnd ==
    /\ tabPc = "closing" /\ closeQueue = <<>>
    /\ pages' = context_pages
    /\ tabPc' = "idle" /\ tabRet' = "closed_others"
    /\ UNCHANGED <<context_pages, page, stealthed, polls, closeQueue, nextPageId>>
    /\ UNCHANGED <<vars_runner, writeVars, appVars, sheetVars, storeVars, assetVars, flowVars, modalVars>>

TabInit ==
    /\ RunnerAtRest
    /\ WriteBackIdle /\ AppIdle
    /\ SheetIdle /\ StoreIdle /\ AssetIdle /\ FlowIdle /\ ModalIdle
    /\ TabsIdle

TabNext ==
    \/ TabOpens \/ SwitchBegin \/ SwitchPoll \/ SwitchGiveUp
    \/ CloseCurrentTab \/ CloseOthersBegin \/ CloseOthersStep \/ CloseOthersEnd

TabSpec == TabInit /\ [][TabNext]_vars

\* ================================================== _close_modal_popups
MaxModals == 2

\* for _ in range(5)
MODAL_ATTEMPTS == 5

\* a click or the Escape key dismisses the top modal, or has no effect
Dismissed(n) == {n, IF n > 0 THEN n - 1 ELSE 0}

\* _close_modal_popups is called
ModalBegin ==
    /\ modalPc = "idle"
    /\ modalPc' = "check" /\ attempt' = 0 /\ escapes' = 0
    /\ btnFound' = {} /\ clicked' = {}
    /\ UNCHANGED modals
    /\ UNCHANGED <<vars_runner, writeVars, appVars, sheetVars, storeVars, assetVars, flowVars, tabVars>>

\* the head of the loop: the next iteration if any, the sleep, the query for
\* a modal (outside any try: it can raise) and the break
ModalCheck ==
    /\ modalPc = "check"
    /\ IF attempt = MODAL_ATTEMPTS
       THEN modalPc' = "done" /\ UNCHANGED attempt
       ELSE /\ attempt' = attempt + 1
            /\ \/ modalPc' = "raised"
               \/ modalPc' = IF modals = 0 THEN "done" ELSE "step1"
    /\ btnFound' = {} /\ clicked' = {}
    /\ UNCHANGED <<modals, escapes>>
    /\ UNCHANGED <<vars_runner, writeVars, appVars, sheetVars, storeVars, assetVars, flowVars, tabVars>>

AfterClick_NoContinue(ok, fallthrough) == fallthrough

\* after close_btn.click(force=True): `continue` when it returned, the
\* except branch and the next step when it raised
AfterClick(ok, fallthrough) == IF ok THEN "check" ELSE fallthrough

\* one of the two try blocks: the button is looked up (found, not found, or
\* the lookup raises) and clicked if found
TryCloseButton(step, fallthrough) ==
    /\ \/ /\ modalPc' = fallthrough
          /\ UNCHANGED <<modals, btnFound, clicked>>
       \/ /\ btnFound' = btnFound \cup {step}
          /\ \/ /\ clicked' = clicked \cup {step}
                /\ modals' \in Dismissed(modals)
                /\ modalPc' = AfterClick(TRUE, fallthrough)
             \/ /\ modalPc' = AfterClick(FALSE, fallthrough)
                /\ UNCHANGED <<modals, clicked>>
    /\ UNCHANGED <<attempt, escapes>>
    /\ UNCHANGED <<vars_runner, writeVars, appVars, sheetVars, storeVars, assetVars, flowVars, tabVars>>

\* 1. button.btn-secondary:has-text("閉じる")
ModalStep1 == modalPc = "step1" /\ TryCloseButton(1, "step2")

\* 2. button:has-text("閉じる")
ModalStep2 == modalPc = "step2" /\ TryCloseButton(2, "escape")

\* 3. keyboard.press('Escape'), outside any try
ModalEscape ==
    /\ modalPc = "escape"
    /\ \/ /\ escapes' = escapes + 1
          /\ modals' \in Dismissed(modals)
          /\ modalPc' = "check"
       \/ /\ modalPc' = "raised"
          /\ UNCHANGED <<modals, escapes>>
    /\ UNCHANGED <<attempt, btnFound, clicked>>
    /\ UNCHANGED <<vars_runner, writeVars, appVars, sheetVars, storeVars, assetVars, flowVars, tabVars>>

ModalInit ==
    /\ RunnerAtRest
    /\ WriteBackIdle /\ AppIdle
    /\ SheetIdle /\ StoreIdle /\ AssetIdle /\ FlowIdle /\ TabsIdle
    /\ modals \in 0..MaxModals
    /\ attempt = 0 /\ modalPc = "idle" /\ btnFound = {} /\ clicked = {}
    /\ escapes = 0

ModalNext == ModalBegin \/ ModalCheck \/ ModalStep1 \/ ModalStep2 \/ ModalEscape

\* the coroutine is run by the event loop until it returns or raises
ModalSpec == ModalInit /\ [][ModalNext]_vars /\ WF_vars(ModalNext)

\* ================================== LineAutomation.process_account: write-back
\* The update_cell calls of process_account for one result, over the column
\* settings a RunnerConfig can hold: for each output field the sentinel, the
\* empty string (the default of the field) or a letter.
OutputLetters ==
    [col_basic_id |-> <<"D">>, col_permission_link |-> <<"E">>,
     col_friend_link |-> <<"F">>, col_access_token |-> <<"G">>,
     col_business_account |-> <<"H">>]

OutputConfigs ==
    { c \in [OutputFields -> {Sentinel, <<>>} \cup
                             { OutputLetters[f] : f \in OutputFields }] :
        \A f \in OutputFields : c[f] \in {Sentinel, <<>>, OutputLetters[f]} }

\* the results create_account can return for one record
CreatedResults ==
    { [row_number |-> HEADER_ROWS + 1, success |-> ok, basic_id |-> b,
       permission_link |-> p, friend_link |-> f, access_token |-> t,
       error_message |-> IF ok THEN "" ELSE "error"] :
        ok \in BOOLEAN, b \in {"", "@abc123"}, p \in {"", "plink"},
        f \in {"", "flink"}, t \in {"", "token"} }

WriteBackInit ==
    /\ RunnerAtRest
    /\ SheetIdle /\ StoreIdle /\ AssetIdle /\ FlowIdle /\ TabsIdle /\ ModalIdle
    /\ AppIdle
    /\ wbConfig \in OutputConfigs
    /\ wbResult \in CreatedResults
    /\ update_calls = <<>> /\ wbPc = "idle"

\* process_account, lines 914-956, after create_account has returned
process_account ==
    /\ wbPc = "idle"
    /\ update_calls' = WriteBackCells(wbResult, wbConfig)
    /\ wbPc' = "done"
    /\ UNCHANGED <<wbConfig, wbResult>>
    /\ UNCHANGED <<vars_runner, sheetVars, storeVars, assetVars, flowVars, tabVars,
                   modalVars, appVars>>

WriteBackNext == process_account

WriteBackSpec == WriteBackInit /\ [][WriteBackNext]_vars

\* ===================================== LineAutomationApp: run and pause
\* The run button, the pause button and the worker thread of the control
\* surface.  automation_runner is 0 for None and otherwise the number of
\* the AutomationRunner the application holds; runner_is_paused is the
\* is_paused flag of that runner.
MaxRuns == 2
MaxClicks == 3

\* one click on the pause button: its label at the click, the runner method called
Click(label, call) == [label |-> label, call |-> call]

\* on_run_click, lines 911-914 and 969-970 (the run button is enabled only
\* while no run is in progress): flags and buttons, then the thread starts
on_run_click ==
    /\ ~app_is_running
    /\ automation_runner < MaxRuns
    /\ app_is_running' = TRUE
    /\ pause_enabled' = TRUE
    /\ threadPc' = "starting"
    /\ UNCHANGED <<app_is_paused, pause_label, automation_runner, runner_is_paused,
                   finishedQueue>>
    /\ UNCHANGED clicks
    /\ UNCHANGED <<vars_runner, writeVars, sheetVars, storeVars, assetVars, flowVars,
                   tabVars, modalVars>>

\* AutomationRunner.__init__, lines 60-62: is_paused = False
NewRunnerPaused(paused) == FALSE

\* run_automation, lines 956-961: the thread creates the runner
CreateRunner ==
    /\ threadPc = "starting"
    /\ automation_runner' = automation_runner + 1
    /\ runner_is_paused' = NewRunnerPaused(app_is_paused)
    /\ threadPc' = "running"
    /\ UNCHANGED <<app_is_running, app_is_paused, pause_enabled, pause_label,
                   finishedQueue>>
    /\ UNCHANGED clicks
    /\ UNCHANGED <<vars_runner, writeVars, sheetVars, storeVars, assetVars, flowVars,
                   tabVars, modalVars>>

\* run() reaches the pause check before a record
ReachPauseCheck ==
    /\ threadPc = "running"
    /\ threadPc' = "pause_check"
    /\ UNCHANGED <<app_is_running, app_is_paused, pause_enabled, pause_label,
                   automation_runner, runner_is_paused, finishedQueue>>
    /\ UNCHANGED clicks
    /\ UNCHANGED <<vars_runner, writeVars, sheetVars, storeVars, assetVars, flowVars,
                   tabVars, modalVars>>

\* while self.is_paused: the record starts when the flag is clear
PassPauseCheck ==
    /\ threadPc = "pause_check"
    /\ ~runner_is_paused
    /\ threadPc' = "running"
    /\ UNCHANGED <<app_is_running, app_is_paused, pause_enabled, pause_label,
                   automation_runner, runner_is_paused, finishedQueue>>
    /\ UNCHANGED clicks
    /\ UNCHANGED <<vars_runner, writeVars, sheetVars, storeVars, assetVars, flowVars,
                   tabVars, modalVars>>

\* run_automation, lines 964-965: run() returns (an early return, or the
\* end of the loop after the last record) and _on_automation_complete
\* emits automation_finished
RunReturns ==
    /\ threadPc = "running"
    /\ threadPc' = "none"
    /\ finishedQueue' = finishedQueue + 1
    /\ UNCHANGED <<app_is_running, app_is_paused, pause_enabled, pause_label,
                   automation_runner, runner_is_paused>>
    /\ UNCHANGED clicks
    /\ UNCHANGED <<vars_runner, writeVars, sheetVars, storeVars, assetVars, flowVars,
                   tabVars, modalVars>>

\* _finish_automation, lines 995-1002
_finish_automation ==
    /\ finishedQueue > 0
    /\ finishedQueue' = finishedQueue - 1
    /\ app_is_running' = FALSE
    /\ pause_enabled' = FALSE
    /\ pause_label' = "pause"
    /\ UNCHANGED <<app_is_paused, automation_runner, runner_is_paused, threadPc>>
    /\ UNCHANGED clicks
    /\ UNCHANGED <<vars_runner, writeVars, sheetVars, storeVars, assetVars, flowVars,
                   tabVars, modalVars>>

\* on_pause_click, lines 1004-1016: a click on the enabled pause button
on_pause_click ==
    /\ pause_enabled
    /\ Len(clicks) < MaxClicks
    /\ IF automation_runner = 0
       THEN /\ clicks' = Append(clicks, Click(pause_label, "none"))
            /\ UNCHANGED <<app_is_paused, pause_label, runner_is_paused>>
       ELSE IF app_is_paused
            THEN /\ app_is_paused' = FALSE
                 /\ pause_label' = "pause"
                 /\ runner_is_paused' = FALSE
                 /\ clicks' = Append(clicks, Click(pause_label, "resume"))
            ELSE /\ app_is_paused' = TRUE
                 /\ pause_label' = "resume"
                 /\ runner_is_paused' = TRUE
                 /\ clicks' = Append(clicks, Click(pause_label, "pause"))
    /\ UNCHANGED <<app_is_running, pause_enabled, automation_runner, threadPc,
                   finishedQueue>>
    /\ UNCHANGED <<vars_runner, writeVars, sheetVars, storeVars, assetVars, flowVars,
                   tabVars, modalVars>>

AppInit ==
    /\ RunnerAtRest
    /\ SheetIdle /\ StoreIdle /\ AssetIdle /\ FlowIdle /\ TabsIdle /\ ModalIdle
    /\ WriteBackIdle
    /\ AppIdle

AppNext ==
    \/ on_run_click \/ CreateRunner \/ ReachPauseCheck \/ PassPauseCheck
    \/ RunReturns \/ _finish_automation \/ on_pause_click

AppSpec == AppInit /\ [][AppNext]_vars

\* ======================================= a run under LineAutomationApp
\* One run started from the control surface, up to the delivery of the
\* finished notification: the worker thread runs run() and then emits
\* automation_finished; the Qt loop delivers the queued signals; the
\* operator accepts every challenge dialog.
AppRunning ==
    /\ app_is_running = TRUE /\ app_is_paused = FALSE
    /\ pause_enabled = TRUE /\ pause_label = "pause"
    /\ automation_runner = 1 /\ runner_is_paused = FALSE
    /\ threadPc = "running" /\ finishedQueue = 0 /\ clicks = <<>>

LiveInit ==
    /\ RunnerInit /\ captchaWired /\ session_file # "unreadable"
    /\ SheetIdle /\ StoreIdle /\ AssetIdle /\ FlowIdle /\ TabsIdle /\ ModalIdle
    /\ WriteBackIdle
    /\ AppRunning

\* run_automation, lines 964-965: run() has returned, then
\* _on_automation_complete emits automation_finished
OnAutomationComplete == pc = "done" /\ RunReturns

LiveNext ==
    \/ WorkerWired
    \/ pause \/ resume \/ stop
    \/ OnCaptchaRequired \/ DialogAccepted
    \/ OnAutomationComplete \/ _finish_automation

LiveSpec ==
    /\ LiveInit /\ [][LiveNext]_vars
    /\ WF_vars(WorkerWired)
    /\ WF_vars(OnCaptchaRequired) /\ WF_vars(DialogAccepted)
    /\ WF_vars(OnAutomationComplete) /\ WF_vars(_finish_automation)

\* ================================================================= claims
\* positions of the worker inside login()
LoginPcs == {"restore", "cred_nav", "cred_waiturl", "cred_reread", "cred_final"}
InLogin ==
    \/ pc \in LoginPcs
    \/ pc \in {"captcha_notify", "captcha_poll", "captcha_sleep"}
       /\ captchaRet \in LoginPcs
\* login() was entered and has returned or raised
LoginOver == restoreOutcome # "none" /\ ~InLogin

RowsOf(rs) == [i \in DOMAIN rs |-> rs[i].row_number]

\* C1: when connect, launch and login succeeded and the loop ran to its
\* end, run() returns exactly one result per fetched record, in the order
\* of the records.
C1_OneResultPerRecord ==
    (pc = "done" /\ exitKind = "normal") =>
        /\ returned = results
        /\ Len(results) = Len(accounts)
        /\ RowsOf(results) = RowsOf(accounts)

C1_Witness ==
    /\ pc = "done" /\ exitKind = "normal"
    /\ Len(accounts) >= 2
    /\ ~results[1].success /\ results[2].success

\* C2: a stop() that arrives while the worker sleeps in the pause loop
\* before record k keeps records k..N from being started: none of them has
\* a process_account call or a progress report.
C2_StopInPauseWait ==
    stopCtx = "pause_wait" =>
        /\ \A i \in DOMAIN started : started[i] < stopIdx
        /\ \A i \in DOMAIN progress : progress[i][1] < stopIdx

\* C3: a stop() that arrives while the workflow of record k is in flight
\* does not interrupt it: no record after k is started, and once the
\* worker is past the workflow the result of k is the last result and
\* run() returns it.
C3_CooperativeStop ==
    stopCtx = "in_flight" =>
        /\ \A i \in DOMAIN started : started[i] <= stopIdx
        /\ pc \in {"delay", "loop_top", "finally", "done"} =>
              /\ Len(results) = stopIdx
              /\ results[stopIdx].row_number = accounts[stopIdx].row_number
        /\ pc = "done" => returned = results

C3_Witness ==
    /\ stopCtx = "in_flight" /\ pc = "done" /\ exitKind = "stopped"
    /\ stopIdx < Len(accounts)
    /\ Len(returned) = stopIdx

\* C4: while the pause flag stays set (pause() was the last control call),
\* the worker starts no record.
C4_PauseHonoured == [][(is_paused /\ is_paused') => started' = started]_vars

\* C5: every result with success = true carries a non-empty basic_id (an
\* empty identifier ends the record as failed).
C5_NoIdentifierIsFailure ==
    \A i \in DOMAIN results : results[i].success => results[i].basic_id # ""

C7_RestoreSkipsLogin ==
    restoreOutcome = "ok" =>
        /\ credLoginCalls = 0
        /\ saveCalls = 0
        /\ loginResult = "true" /\ is_logged_in

C7_Witness ==
    /\ restoreOutcome = "ok" /\ pc = "loop_top" /\ idx = 1
    /\ session_file = "valid"
    /\ OnHomeSurface(current_url) /\ ~IsLoginSurface(current_url)

\* C8: after any failed restore attempt on an existing artifact
\* (unreadable file, exception, login surface) clear_session was called.
C8_StaleArtifactCleared ==
    restoreOutcome \in {"unreadable", "exception", "login_surface"} => clearCalls >= 1

\* C9: when the interactive login has just returned true, the browser is
\* not on a login surface.
C9_LoginConfirmsHome ==
    (loginResult = "true" /\ credLoginCalls = 1 /\ pc = "loop_top" /\ idx = 1) =>
        ~IsLoginSurface(current_url)

\* C10: at most one challenge wait and one notification / dialog are
\* outstanding, the event is set only while the worker waits, and a
\* worker that waits with the event set leaves the wait.
C10_OneWait ==
    /\ waits <= 1
    /\ sigQueue + openDialogs <= 1
    /\ captcha_event => (pc = "captcha_poll" /\ waits = 1 /\ sigQueue + openDialogs = 0)

C10_ChallengeGate ==
    /\ []C10_OneWait
    /\ (pc = "captcha_poll" /\ captcha_event) ~> (pc # "captcha_poll" /\ ~captcha_event)

C10_Witness ==
    /\ pc = "create_post" /\ waits = 0 /\ captchaWired
    /\ Len(results) >= 1 /\ credLoginCalls = 1
    /\ consumed >= 1

\* C11: the resolution event is single-use.  Every accepted dialog ends
\* exactly one wait: the waits ended so far plus the one the set event is
\* about to end equal the acknowledgments; a wait starts with the event
\* clear, and a wait ends only by consuming a set event, also when it is
\* not the first wait of the run.
C11_EventClearAtStart == pc = "captcha_notify" => ~captcha_event

C11_OneAckOneWait ==
    consumed + (IF captcha_event THEN 1 ELSE 0) = acks

C11_WaitNeedsAck ==
    (pc = "captcha_poll" /\ pc' # "captcha_poll") =>
        (captcha_event /\ ~captcha_event' /\ consumed' = consumed + 1)

C11_SingleUseSignal ==
    /\ [](C11_EventClearAtStart /\ C11_OneAckOneWait)
    /\ [][C11_WaitNeedsAck]_vars

\* a later wait of the same run blocks although earlier ones were
\* acknowledged
C11_Witness ==
    /\ pc = "captcha_poll" /\ captchaRet = "create_post"
    /\ consumed = 2 /\ acks = 2 /\ ~captcha_event
    /\ sigQueue + openDialogs = 1

\* C12: without a wired callback a challenge wait is the fixed sleep: no
\* signal is emitted, the event plays no part, and every wait ends and
\* hands control back to the workflow.
InChallengeWait == pc \in {"captcha_notify", "captcha_poll", "captcha_sleep"}

C12_NoExternalSignal ==
    ~captchaWired =>
        /\ pc \notin {"captcha_notify", "captcha_poll"}
        /\ waits = 0 /\ sigQueue = 0 /\ openDialogs = 0 /\ ~captcha_event

C12_TimedWait ==
    /\ []C12_NoExternalSignal
    /\ InChallengeWait ~> ~InChallengeWait

C12_Witness ==
    /\ ~captchaWired /\ pc = "captcha_sleep" /\ captchaRet = "create_post"
    /\ credLoginCalls = 1 /\ acks = 0 /\ idx = 2

FatalFailure ==
    \/ exitKind \in {"connect_failed", "launch_failed", "login_failed"}
    \/ loginResult \in {"false", "raised"}

C14_FatalAbortsRun ==
    FatalFailure =>
        /\ started = <<>> /\ progress = <<>> /\ results = <<>> /\ writes = <<>>
        /\ pc \in {"login_failed", "finally", "done"}
        /\ pc = "done" => returned = <<>>

C14_Witness ==
    /\ pc = "done" /\ exitKind = "launch_failed" /\ Len(accounts) = 2
    /\ returned = <<>> /\ closeCalls = 1 /\ browser = "none"

\* the update_cell calls issued for one cell, in call order
CallsFor(row, col) == SelectSeq(writes, LAMBDA w : w.row = row /\ w.col = col)

\* exactly one call with the value for a non-empty value and a configured
\* column, no call otherwise
FieldWritten(r, col, v) ==
    CallsFor(r.row_number, col) =
        IF v # "" /\ col # Sentinel THEN <<Cell(r.row_number, col, v)>> ELSE <<>>

\* C15: a record that obtained both links but no credential is a success
\* with the two link slots filled and the credential slot empty; both
\* links are written back once and nothing is written to the credential
\* column.
C15_PartialSuccess ==
    \A i \in DOMAIN results :
        LET r == results[i] IN
        (r.permission_link # "" /\ r.friend_link # "" /\ r.access_token = "") =>
            /\ r.success
            /\ FieldWritten(r, column_config.col_permission_link, r.permission_link)
            /\ FieldWritten(r, column_config.col_friend_link, r.friend_link)
            /\ CallsFor(r.row_number, column_config.col_access_token) = <<>>

C15_Witness ==
    /\ pc = "delay" /\ Len(results) = 1
    /\ results[1].success /\ results[1].access_token = ""
    /\ results[1].permission_link = "plink" /\ results[1].friend_link = "flink"
    /\ Len(CallsFor(results[1].row_number, column_config.col_permission_link)) = 1
    /\ Len(CallsFor(results[1].row_number, column_config.col_friend_link)) = 1

\* C16: every started record whose workflow is over has its result, and
\* a failed result has empty output slots and the error text.
RecordOver == pc \in {"delay", "loop_top", "finally", "done"}

C16_FailedResultShape ==
    /\ RecordOver => RowsOf(results) = [i \in DOMAIN started |-> accounts[started[i]].row_number]
    /\ \A i \in DOMAIN results :
          ~results[i].success =>
              /\ results[i].basic_id = "" /\ results[i].permission_link = ""
              /\ results[i].friend_link = "" /\ results[i].access_token = ""
              /\ results[i].error_message # ""

C16_Witness ==
    /\ pc = "done" /\ Len(results) = 2
    /\ results[1].success /\ results[1].error_message = ""
    /\ ~results[2].success /\ results[2].error_message = "error"

\* C17: for each of the four output fields of every result there is
\* exactly one update_cell call to the row and the column of the field
\* with its value when the value is non-empty and the column is not the
\* sentinel, and no call otherwise.
C17_WriteBackPerField ==
    \A i \in DOMAIN results :
        LET r == results[i] IN
        /\ FieldWritten(r, column_config.col_basic_id, r.basic_id)
        /\ FieldWritten(r, column_config.col_permission_link, r.permission_link)
        /\ FieldWritten(r, column_config.col_friend_link, r.friend_link)
        /\ FieldWritten(r, column_config.col_access_token, r.access_token)

\* a result with an identifier whose column is the sentinel and with an
\* empty credential whose column is configured
C17_Witness ==
    /\ pc = "delay" /\ Len(results) = 2
    /\ results[2].basic_id = "@abc123" /\ column_config.col_basic_id = Sentinel
    /\ results[2].access_token = "" /\ results[2].friend_link = "flink"
    /\ ~results[1].success
    /\ Len(writes) = 3

\* C18: every result, completed or failed, has the login e-mail written
\* to the owning-account column of its row when that column is configured.
C18_OwnerAlwaysWritten ==
    \A i \in DOMAIN results :
        Configured(column_config.col_business_account) =>
            CallsFor(results[i].row_number, column_config.col_business_account)
                = <<Cell(results[i].row_number, column_config.col_business_account, "email")>>

\* C19: the decoded index of a column letter is its base-26 position
\* ("A" 0, "Z" 25, "AA" 26, "AZ" 51, the sentinel -1, option i of the
\* selector i - 1), and no update_cell call names the sentinel column.
C19_ColumnDecoding ==
    /\ pc = "filter" =>
          LET col == column_config.col_enabled IN
          /\ col = <<"A">> => enabled_idx = 0
          /\ col = <<"Z">> => enabled_idx = 25
          /\ col = <<"A", "A">> => enabled_idx = 26
          /\ col = <<"A", "Z">> => enabled_idx = 51
          /\ col = Sentinel => enabled_idx = -1
          /\ \A i \in 2..Len(get_column_options) :
                col = get_column_options[i] => enabled_idx = i - 2
    /\ \A i \in DOMAIN writes : writes[i].col # Sentinel

C19_Witness ==
    /\ pc = "filter" /\ column_config.col_enabled = <<"A", "Z">>
    /\ enabled_idx = 51

\* C20: login() is called at most once in a run, and a record is started
\* only after that call is over and returned true.
C20_LoginOncePerRun ==
    /\ loginCalls <= 1
    /\ started # <<>> => (loginCalls = 1 /\ LoginOver /\ loginResult = "true")

C20_Witness ==
    /\ pc = "done" /\ Len(started) = 2 /\ loginCalls = 1
    /\ credLoginCalls = 1 /\ saveCalls = 1

\* C22: a failed record does not end the batch.  Its result (success
\* false, with the message) is appended; the step after the append moves
\* to the next record, and the head of the loop leaves the loop only when
\* the records are exhausted or a stop was requested, whatever the last
\* result was.
LastFailed == results # <<>> /\ ~results[Len(results)].success

C22_AfterFailure ==
    LastFailed =>
        /\ (pc = "delay" => (pc' = "loop_top" /\ idx' = idx + 1))
        /\ (pc = "loop_top" /\ idx <= Len(accounts) /\ ~should_stop)
              => pc' = "pause_check"
        /\ (pc = "pause_check" /\ ~is_paused)
              => (pc' = "create" /\ started' = Append(started, idx))

C22_FailureKeepsBatch ==
    /\ [](LastFailed => results[Len(results)].error_message # "")
    /\ []((pc \in {"finally", "done"} /\ LastFailed)
            => (exitKind \in {"normal", "stopped"}
                /\ (exitKind = "stopped" => should_stop)
                /\ (exitKind = "normal" => Len(results) = Len(accounts))))
    /\ [][pc' # pc => C22_AfterFailure]_vars

\* record 2 started after record 1 failed
C22_Witness ==
    /\ pc = "create" /\ idx = 2 /\ started = <<1, 2>>
    /\ Len(results) = 1 /\ ~results[1].success /\ results[1].error_message = "error"
    /\ ~should_stop

\* C27: the progress report of the k-th record is emitted after the k-th
\* result was appended: there are never more reports than results.
C27_ProgressAfterResult == Len(progress) <= Len(results)

\* ---- C24 ----
\* the characters of a cell, trimmed, equal one of the tokens when both are
\* compared without regard to case
MatchesToken(cell) ==
    \E t \in ENABLED_VALUES : UpperStr(Strip(cell)) = UpperStr(t)

\* the 1-based sheet rows after the header rows whose enabled cell matches
EligibleSheetRows ==
    LET e == _col_letter_to_index(column_config.col_enabled)
    IN { r \in (HEADER_ROWS + 1)..Len(all_values) :
            /\ e >= 0 /\ e < Len(all_values[r])
            /\ MatchesToken(all_values[r][e + 1]) }

\* C24: get_enabled_rows returns exactly the data rows (after the HEADER_ROWS
\* header rows) whose trimmed enabled cell matches an ENABLED_VALUES token
\* case-insensitively, in sheet order, cut after the first MAX_ACCOUNTS of
\* them, each with its 1-based sheet row number; the sheet "TRUE", "1",
\* "有効", "FALSE" yields its first three data rows and not the fourth.
C24_EnabledRows ==
    sheetRet = "returned" =>
        /\ \A i \in DOMAIN enabled_rows :
              enabled_rows[i].row_number \in EligibleSheetRows
        /\ \A i, j \in DOMAIN enabled_rows :
              i < j => enabled_rows[i].row_number < enabled_rows[j].row_number
        /\ \A r \in EligibleSheetRows :
              (\E i \in DOMAIN enabled_rows : enabled_rows[i].row_number = r)
              <=> Cardinality({ q \in EligibleSheetRows : q <= r }) <= MAX_ACCOUNTS
        /\ Len(enabled_rows) <= MAX_ACCOUNTS
        /\ (all_values = ScenarioSheet /\ column_config.col_enabled = <<"A">>)
              => RowsOf(enabled_rows) = <<3, 4, 5>>

\* the scenario sheet was read through column A and gave rows 3, 4, 5
C24_Witness ==
    /\ sheetRet = "returned" /\ all_values = ScenarioSheet
    /\ column_config.col_enabled = <<"A">>
    /\ RowsOf(enabled_rows) = <<3, 4, 5>>

\* the cap was reached: a long sheet returned MAX_ACCOUNTS rows and left
\* enabled rows behind
C24_CapReached ==
    /\ sheetRet = "returned" /\ Len(enabled_rows) = MAX_ACCOUNTS
    /\ Cardinality(EligibleSheetRows) > MAX_ACCOUNTS

\* ---- C25 ----
\* C25: over any sequence of save / load / exists / clear calls: while the
\* last save or clear was a successful save_session(c), has_session() is
\* true and load_session() returns the session data holding c; while it was
\* a successful clear_session(), has_session() is false and load_session()
\* returns None; clear_session on an absent artifact succeeds; an I/O error
\* in save, load or clear gives False / None and no exception leaves them
\* (reads are taken without an I/O error of their own).
C25_StoreContract ==
    /\ []((storeCall.last_write = "save_ok" /\ ~storeCall.io_error) =>
            /\ (storeCall.op = "has" => storeCall.ok)
            /\ (storeCall.op = "load" =>
                  /\ storeCall.loaded # <<>>
                  /\ storeCall.loaded[1].cookies = storeCall.last_saved))
    /\ []((storeCall.last_write = "clear_ok" /\ ~storeCall.io_error) =>
            /\ (storeCall.op = "has" => ~storeCall.ok)
            /\ (storeCall.op = "load" => storeCall.loaded = <<>>))
    /\ [][(~artifact.exists /\ storeCall'.op = "clear") => storeCall'.ok]_vars
    /\ [](storeCall.op \in {"save", "load", "clear"} =>
            /\ ~storeCall.raised
            /\ (storeCall.io_error => (~storeCall.ok /\ storeCall.loaded = <<>>)))

\* a save of two cookies succeeded and a later load returned them; the
\* artifact was cleared while absent
C25_Witness ==
    /\ storeCall.op = "load" /\ storeCall.last_write = "save_ok"
    /\ storeCall.last_saved = <<"sid", "tok">>
    /\ storeCall.loaded = <<SessionData(<<"sid", "tok">>)>>

C25_ClearAbsent ==
    /\ storeCall.op = "clear" /\ storeCall.ok /\ ~artifact.exists
    /\ storeCall.last_saved = <<>>

\* ---- C21 ----
\* the value in the output slot of a phase
Slot(r, p) ==
    CASE p = "permission" -> r.permission_link
      [] p = "link" -> r.friend_link
      [] p = "credential" -> r.access_token

\* the phases a record goes through: the icon phase only with an image path
ExpectedPhases == IF image_path # <<>> THEN PhaseOrder ELSE Tail(PhaseOrder)

HasPath(i) == RowOf(i) \in DOMAIN row_to_image

\* C26: within one download_all, a media reference is downloaded
\* successfully at most once; of two records with identical references the
\* later one gets the path of the earlier one whenever the earlier one has a
\* path, and two paths for one reference are the same path; a record with an
\* empty reference or a failed download has no path, a record with a
\* successful result has the path of its result.
C26_Dedup ==
    /\ \A i, j \in DOMAIN fetched : i # j => fetched[i] # fetched[j]
    /\ \A i, j \in DOMAIN download_results :
          (i < j /\ icon_urls[i] = icon_urls[j]) =>
              /\ HasPath(i) => HasPath(j)
              /\ (HasPath(i) /\ HasPath(j)) =>
                    row_to_image[RowOf(i)] = row_to_image[RowOf(j)]
    /\ \A i \in DOMAIN download_results :
          /\ (icon_urls[i] = <<>> \/ ~download_results[i].success) => ~HasPath(i)
          /\ download_results[i].success =>
                /\ HasPath(i)
                /\ download_results[i].local_path # <<>>
                /\ row_to_image[RowOf(i)] = download_results[i].local_path
    /\ \A i \in DOMAIN icon_urls : HasPath(i) => i \in DOMAIN download_results

\* two records with the same reference: one download, one shared path
C26_Witness ==
    /\ icon_urls = << <<"A">>, <<"A">> >> /\ Len(download_results) = 2
    /\ Len(fetched) = 1
    /\ HasPath(1) /\ HasPath(2)
    /\ row_to_image[RowOf(1)] = row_to_image[RowOf(2)]

\* ---- C28 ----
\* C28: the icon phase is entered only with a local asset path: for a
\* record whose reference is empty or whose download failed, run() passes
\* an empty image path, and create_account goes from the identifier
\* directly to the capability phase, never through _change_icon.
C28_IconOnlyWithPath ==
    /\ [](wfRecord > 0 =>
            /\ (icon_urls[wfRecord] = <<>> \/ ~download_results[wfRecord].success)
                  => image_path = <<>>
            /\ image_path = <<>> =>
                  /\ phase # "icon"
                  /\ \A k \in DOMAIN phaseLog : phaseLog[k] # "icon")
    /\ [][(wfRecord' # wfRecord /\ image_path' = <<>> /\ phase' # "failed")
            => phase' = "capability"]_vars

\* a record whose download failed was completed without the icon phase
C28_Witness ==
    /\ wfRecord > 0 /\ phase = "completed"
    /\ icon_urls[wfRecord] = <<"b">> /\ ~download_results[wfRecord].success
    /\ image_path = <<>> /\ phaseLog = Tail(PhaseOrder)

\* ---- C23 ----
\* C23: when process_account returns, every surface other than the current
\* one has been closed: exactly one surface is open, and the tab list of
\* the controller holds open surfaces only.
C23_OneSurfaceLeft ==
    [][(tabPc = "closing" /\ tabPc' = "idle") =>
          /\ context_pages' = <<page'>>
          /\ \A i \in DOMAIN pages' : InSeq(context_pages', pages'[i])]_vars

C30_GaveUp == tabRet = "None" /\ page = 1 /\ pages = <<1>>

\* ---- C29 ----
\* the loop has ended: by the break, by exhaustion or by an exception
ModalOver == modalPc \in {"done", "raised"}

\* at most MODAL_ATTEMPTS attempts, the call always ends, and an attempt
\* that finds no modal ends the loop
C29_Bounded ==
    /\ [](attempt <= MODAL_ATTEMPTS /\ escapes <= attempt)
    /\ (modalPc = "check") ~> ModalOver
    /\ [][(modalPc = "check" /\ attempt < MODAL_ATTEMPTS /\ modals = 0
             /\ modalPc' # modalPc) => ModalOver']_vars

\* C29 as stated: a bounded retry loop of at most 5 attempts that always
\* terminates and stops as soon as no modal is present, and in each attempt
\* the Escape key is used only when no explicit close button was found.
C29_EscapeOnlyWithoutButton ==
    /\ C29_Bounded
    /\ [][escapes' = escapes + 1 => btnFound = {}]_vars

\* C29, amended: a bounded retry loop of at most 5 attempts that always
\* terminates and stops as soon as no modal is present, and in each attempt
\* the Escape key is used only when no click on a close button succeeded
\* (no button was found, or its lookup or click raised).
C29_EscapeOnlyWithoutClick ==
    /\ C29_Bounded
    /\ [][escapes' = escapes + 1 => clicked = {}]_vars

\* Escape was pressed in an attempt whose close button was found and whose
\* click raised
C29_Witness ==
    /\ escapes = 1 /\ btnFound = {1} /\ clicked = {} /\ modalPc = "check"

\* ------------------------------------------------------------------- C33
\* C33: a stop() request is never lost.  Once should_stop is true, whenever
\* stop() was called after the construction of the runner (also before
\* run() has executed its first statement), it stays true in every later
\* step up to the return of run(), and no record is started after it except
\* the one already in flight.
C33_StopNeverLost ==
    [][ should_stop =>
          /\ should_stop'
          /\ (~InFlight => started' = started) ]_vars

\* ------------------------------------------------------------------- C35
\* C35: the browser controller is torn down at most once per run.  On no
\* exit path of run() (the login-failure path included) is
\* LineAutomation.stop, and with it StealthBrowser.close, called a second
\* time, on a browser that an earlier call has already closed.
C35_TearDownAtMostOnce == closeCalls <= 1

\* ------------------------------------------------------------------- C36
\* C36: in every state of the run, whatever pause / resume / stop calls
\* interleave with it, the results are an order-preserving prefix of the
\* eligible records (the i-th result carries the row number of the i-th
\* record), and the progress reports are (1, N), (2, N), (3, N), ... : the
\* current value grows by one from 1, the total N is the number of
\* eligible records and the current value never exceeds it.
C36_PrefixAndProgress ==
    /\ Len(results) <= Len(accounts)
    /\ \A i \in DOMAIN results : results[i].row_number = accounts[i].row_number
    /\ \A i \in DOMAIN progress :
          /\ progress[i] = <<i, Len(accounts)>>
          /\ i <= Len(accounts)

\* the second record was started although a stop() arrived during the
\* pause wait before it, and the first result was a failure
C36_Witness ==
    /\ Len(accounts) = 2 /\ Len(results) = 1 /\ ~results[1].success
    /\ progress = <<<<1, 2>>, <<2, 2>>>>
    /\ stopCtx = "pause_wait" /\ should_stop
    /\ pc = "create"

\* ------------------------------------------------------------------- C38
\* C38: run() never raises to its caller and never discards completed
\* work.  When an exception escapes while the record loop is executing
\* (from the record source or from a status callback), run() catches it
\* and returns: the results appended for the earlier records are returned
\* unchanged and no later record is started.
C38_ExceptionContained ==
    /\ exitKind # "raised"
    /\ pc \in {"except", "unwind"} => Len(started) <= Len(results) + 1
    /\ (pc = "done" /\ exitKind = "exception" /\ started # <<>>) =>
          /\ returned = results
          /\ Len(started) <= Len(results) + 1

\* ------------------------------------------------------------------- C37
\* C37: write-back never targets an unmapped column.  process_account
\* issues no update_cell call whose column letter _col_letter_to_index
\* decodes to -1 (no mapping): none for the "-" sentinel and none for the
\* empty string, the default of every column field of RunnerConfig.
C37_NoUnmappedColumn ==
    \A i \in DOMAIN update_calls :
        _col_letter_to_index(update_calls[i].col) # -1

\* ------------------------------------------------------------------- C39
\* C39: the primary surface is always an open surface tracked by the
\* controller.  After any sequence of switch_to_new_tab, close_current_tab
\* and close_other_tabs that follows a successful launch, self.page is a
\* member of self.pages and is not closed, and close_current_tab has never
\* closed the last remaining surface (one surface at least is open).
C39_PrimarySurfaceTracked ==
    tabPc = "idle" =>
        /\ InSeq(pages, page)
        /\ InSeq(context_pages, page)
        /\ context_pages # <<>>

\* ------------------------------------------------------------------- C34
\* C34: the pause state of the control surface and the pause flag of the
\* runner always agree.  Whenever a runner exists, LineAutomationApp.
\* is_paused equals AutomationRunner.is_paused, over any sequence of run
\* starts, pause-button clicks and run completions, and the label of the
\* enabled button tells what a click calls: "pause" calls pause() (the
\* application is not paused), "resume" calls resume().
C34_PauseStateAgrees ==
    /\ automation_runner # 0 => app_is_paused = runner_is_paused
    /\ \A i \in DOMAIN clicks :
          clicks[i].call # "none" => clicks[i].call = clicks[i].label

\* ------------------------------------------------------------------- C32
\* C32: once the operator has closed the challenge dialog, by accepting it
\* or by dismissing it without accepting, the challenge wait of the worker
\* eventually ends: the worker does not stay suspended on a challenge for
\* which no dialog is open nor about to open.
C32_ClosedDialogEndsWait ==
    (waits > 0 /\ sigQueue = 0 /\ openDialogs = 0) ~> (waits = 0)

\* ------------------------------------------------------------------- C31
\* the control surface has received the finished notification of the run
FinishedReceived ==
    pc = "done" /\ threadPc = "none" /\ finishedQueue = 0 /\ ~app_is_running

\* C31, as stated: every run() eventually returns and the control surface
\* eventually receives the finished notification, provided each browser
\* step terminates, every pause() is eventually followed by a resume() or
\* a stop() (the pause flag is clear again and again) and every challenge
\* notification is eventually acknowledged by the operator.
C31_EveryPauseResumed == ([]<>(~is_paused)) => <>FinishedReceived

\* C31, amended: the same conclusion, provided each browser step
\* terminates, the operator eventually stops pausing (the pause flag is
\* eventually clear for good) and every challenge notification is
\* eventually acknowledged by the operator.
C31_RunTerminates == (<>[](~is_paused)) => <>FinishedReceived

\* the notification arrived after a complete run of two records in which
\* the worker waited for the operator in a challenge
C31_Witness ==
    /\ FinishedReceived
    /\ exitKind = "normal" /\ Len(returned) = 2
    /\ acks >= 1 /\ consumed >= 1

====
